---- MODULE Spec2Model ----
(***************************************************************************)
(* The Debugger proxy of go-debugger-devtools (proxies/debugger/proxy.go)  *)
(* as a state machine.  Start, the command router (handleNotifications)    *)
(* and every handler goroutine the router spawns are processes over the    *)
(* proxy's shared fields.  The debugger client (package dbgClient) is the  *)
(* environment: its calls return what the debuggee's state says, or fail.  *)
(* Every goroutine keeps the list of what it did that others can observe   *)
(* (client calls, events, responses) in its field log, in program order.   *)
(* The SystemInfo agent (protocol/systeminfo/agent.go) stands beside it:   *)
(* the calls of ProcessCommand and SetGetInfoHandler over its handler slot. *)
(***************************************************************************)
EXTENDS Integers, Sequences, FiniteSets, TLC

VARIABLES
    start,              \* the goroutine running proxy.Start
    routerOut,          \* the last response the router itself sent
    tasks,              \* the goroutines started with "go": 0 is Start's sendPauseState
    ntasks,             \* how many handlers the router has dispatched
    activeTargets,      \* proxy.activeTargets (its key set: a Target holds only its ID)
    activeGoroutineID,  \* proxy.activeGoroutineID
    fileList,           \* proxy.fileList
    breakpoints,        \* proxy.breakpoints
    breakpointsMux,     \* proxy.breakpointsMux: the set of its holders
    activeTargetsMux,   \* proxy.activeTargetsMux: [w |-> writers, r |-> readers]
    dbgRoutines,        \* debuggee: the live routines
    dbgBreakpoints,     \* debuggee: the breakpoints it holds
    targetLife,         \* per TargetId, the last of attached/detached sent for it
    halted,             \* an unrecovered panic ended the process
    getInfo,            \* SystemInfoAgent.commandHandlers.GetInfo: [fn, mux]
    agentCalls,         \* the calls of SystemInfoAgent.ProcessCommand
    agentSetters,       \* the calls of SystemInfoAgent.SetGetInfoHandler
    handlersSet         \* the handlers of the SetGetInfoHandler calls that returned, in order

vars == <<start, routerOut, tasks, ntasks, activeTargets, activeGoroutineID,
          fileList, breakpoints, breakpointsMux, activeTargetsMux,
          dbgRoutines, dbgBreakpoints, targetLife, halted,
          getInfo, agentCalls, agentSetters, handlersSet>>

agentVars == <<getInfo, agentCalls, agentSetters, handlersSet>>

proxyVars == <<activeTargets, activeGoroutineID, fileList, breakpoints,
               breakpointsMux, activeTargetsMux>>

dbgVars == <<dbgRoutines, dbgBreakpoints>>

(***************************************************************************)
(* Bounds of the model.                                                    *)
(***************************************************************************)
MaxTasks == 2

MaxRoutine == 2

MaxLine == 1

Routines == 1..MaxRoutine

HandlerIds == 1..MaxTasks

TaskIds == 0..MaxTasks

MainId == MaxTasks + 1

Lines == 0..MaxLine

DbgLines == 1..(MaxLine + 1)

(***************************************************************************)
(* Text.  A string the code parses or formats is a sequence of characters, *)
(* so that strconv.Atoi and fmt.Sprintf("%d") are computed, not assumed.   *)
(***************************************************************************)
Digits == <<"0", "1", "2", "3", "4", "5", "6", "7", "8", "9">>

IsDigit(c) == \E d \in 1..Len(Digits) : Digits[d] = c

DigitVal(c) == (CHOOSE d \in 1..Len(Digits) : Digits[d] = c) - 1

RECURSIVE Itoa(_)
Itoa(n) ==
    IF n < 0 THEN <<"-">> \o Itoa(0 - n)
    ELSE IF n < Len(Digits) THEN <<Digits[n + 1]>>
    ELSE Itoa(n \div Len(Digits)) \o <<Digits[(n % Len(Digits)) + 1]>>

RECURSIVE DigitsVal(_)
DigitsVal(s) ==
    IF s = <<>> THEN 0
    ELSE DigitsVal(SubSeq(s, 1, Len(s) - 1)) * Len(Digits) + DigitVal(s[Len(s)])

AllDigits(s) == s # <<>> /\ \A i \in 1..Len(s) : IsDigit(s[i])

Atoi(s) ==
    LET signed == s # <<>> /\ s[1] \in {"+", "-"}
        body == IF signed THEN Tail(s) ELSE s
    IN  IF AllDigits(body)
        THEN [ok |-> TRUE,
              val |-> IF signed /\ s[1] = "-" THEN 0 - DigitsVal(body) ELSE DigitsVal(body)]
        ELSE [ok |-> FALSE, val |-> 0]

(***************************************************************************)
(* Log entries.                                                            *)
(***************************************************************************)
Call(fn, args) == [op |-> "call", name |-> fn, target |-> <<>>, arg |-> args]

Event(name, target, body) == [op |-> "event", name |-> name, target |-> target, arg |-> body]

Response(code, body) == [op |-> "respond", name |-> code, target |-> <<>>, arg |-> body]

ErrText(fn) == <<fn, "failed">>

ErrorCodeMethodNotFound == "MethodNotFound"

ErrorCodeInvalidParams == "InvalidParams"

ErrorCodeInternalError == "InternalError"

(***************************************************************************)
(* Goroutines.                                                             *)
(***************************************************************************)
IdleTask ==
    [kind |-> "idle", pc |-> "idle", cmd |-> <<>>, log |-> <<>>, key |-> <<>>,
     todo |-> {},
     activeStack |-> <<>>, targetsStacks |-> {}, state |-> "none", scope |-> <<>>,
     selected |-> 0]

NotHalted == [on |-> FALSE, by |-> 0, why |-> "none"]

Running == ~halted.on

\* A panic that is recovered: the process goes on.
PanicRecovered(t, why) == halted' = halted

\* A panic in a goroutine that nothing recovers ends the process.
Panic(t, why) == halted' = [on |-> TRUE, by |-> t, why |-> why]

\* A router started by the constructor.
RouterUpFromConstruction == TRUE

\* The router runs once Start has answered Enable.
RouterUp == start.pc # "enable"

Step(t, pc, entries) == [tasks[t] EXCEPT !.pc = pc, !.log = @ \o entries]

\* The goroutine returns: its locals are gone, what it did stays observed.
Return(t, entries) == [IdleTask EXCEPT !.kind = tasks[t].kind, !.pc = "done", !.log = tasks[t].log \o entries]

(***************************************************************************)
(* The debuggee behind the debugger client.                                *)
(***************************************************************************)
SourceFile == "/a/b.src"

SourceLists ==
    { <<"<autogenerated>", SourceFile>>, <<SourceFile, "<autogenerated>", "/a/c.src">> }

WorkerFunction == <<"main", "worker">>

\* Where routine r stands when the debuggee is paused: the routines stand on
\* different lines, each the backend line of a line a breakpoint can be set at.
DbgLineOf(r) == ((r - 1) % Cardinality(DbgLines)) + 1

StackOf(r) ==
    << [file |-> SourceFile, line |-> DbgLineOf(r), fn |-> <<WorkerFunction>>],
       [file |-> "/a/c.src", line |-> 1, fn |-> <<>>] >>

GoroutineOf(r) ==
    [ID |-> r, fn |-> IF r % 2 = 1 THEN <<WorkerFunction>> ELSE <<>>]

RECURSIVE SortedSeq(_)
SortedSeq(S) ==
    IF S = {} THEN <<>>
    ELSE LET m == CHOOSE x \in S : \A y \in S : x <= y
         IN  <<m>> \o SortedSeq(S \ {m})

ListGoroutinesResult == [i \in 1..Cardinality(dbgRoutines) |-> GoroutineOf(SortedSeq(dbgRoutines)[i])]

\* The debuggee ran and paused again: routines have ended and begun.
DebuggeeRuns == dbgRoutines' \in (SUBSET Routines) \ {{}}

(***************************************************************************)
(* proxy.Start                                                             *)
(***************************************************************************)
ScriptParsedEvent(file) == [scriptId |-> file, url |-> file, executionContextId |-> 1]

StartEnable ==
    /\ Running /\ start.pc = "enable"
    /\ start' = [start EXCEPT !.pc = "ready", !.log = @ \o <<Response("ok", <<>>)>>]
    /\ UNCHANGED <<routerOut, agentVars, tasks, ntasks, proxyVars, dbgVars, targetLife, halted>>

StartBlockUntilReady ==
    /\ Running /\ start.pc = "ready"
    /\ start' = [start EXCEPT !.pc = "state", !.log = @ \o <<Call("BlockUntilReady", <<>>)>>]
    /\ UNCHANGED <<routerOut, agentVars, tasks, ntasks, proxyVars, dbgVars, targetLife, halted>>

StartGetState ==
    /\ Running /\ start.pc = "state"
    /\ \/ /\ Panic(MainId, "GetState")
          /\ start' = [start EXCEPT !.pc = "panic", !.log = @ \o <<Call("GetState", <<>>)>>]
          /\ UNCHANGED <<tasks, activeGoroutineID>>
       \/ /\ \E sel \in {0} \cup dbgRoutines :
                /\ activeGoroutineID' = IF sel # 0 THEN sel ELSE activeGoroutineID
                /\ start' = [start EXCEPT !.pc = "sources", !.log = @ \o <<Call("GetState", <<sel>>)>>]
          /\ tasks' = [tasks EXCEPT ![0] = [IdleTask EXCEPT !.kind = "sendPauseState", !.pc = "ps_state"]]
          /\ UNCHANGED halted
    /\ UNCHANGED <<routerOut, agentVars, ntasks, activeTargets, fileList, breakpoints,
                   breakpointsMux, activeTargetsMux, dbgVars, targetLife>>

StartListSources ==
    /\ Running /\ start.pc = "sources"
    /\ \/ /\ Panic(MainId, "ListSources")
          /\ start' = [start EXCEPT !.pc = "panic", !.log = @ \o <<Call("ListSources", <<>>)>>]
       \/ /\ \E srcs \in SourceLists :
                start' = [start EXCEPT !.pc = "loop", !.sources = srcs, !.i = 1,
                                       !.log = @ \o <<Call("ListSources", <<>>)>>]
          /\ UNCHANGED halted
    /\ UNCHANGED <<routerOut, agentVars, tasks, ntasks, proxyVars, dbgVars, targetLife>>

StartSource ==
    /\ Running /\ start.pc = "loop"
    /\ LET source == start.sources[start.i]
           pc == IF start.i = Len(start.sources) THEN "done" ELSE "loop"
       IN  IF source = "<autogenerated>"
           THEN /\ start' = [start EXCEPT !.pc = pc, !.i = @ + 1]
                /\ UNCHANGED fileList
           ELSE /\ fileList' = Append(fileList, source)
                /\ start' = [start EXCEPT !.pc = pc, !.i = @ + 1,
                       !.log = @ \o <<Event("Debugger.scriptParsed", <<>>, ScriptParsedEvent(source))>>]
    /\ UNCHANGED <<routerOut, agentVars, tasks, ntasks, activeTargets, activeGoroutineID, breakpoints,
                   breakpointsMux, activeTargetsMux, dbgVars, targetLife, halted>>

Start == StartEnable \/ StartBlockUntilReady \/ StartGetState \/ StartListSources \/ StartSource

(***************************************************************************)
(* handleNotifications: the router.  A command is answered by the router   *)
(* itself (enable, and the methods it rejects) or handed to a goroutine of *)
(* its own.  The payload of a rejected command is read by nobody.          *)
(***************************************************************************)
RejectedMethods ==
    {"disable", "setBreakpointsActive", "setSkipAllPauses", "setBreakpoint",
     "getPossibleBreakpoints", "continueToLocation", "pause", "searchInContent",
     "setScriptSource", "restartFrame", "setPauseOnExceptions", "setVariableValue",
     "setAsyncCallStackDepth", "setBlackboxPatterns", "setBlackboxedRanges"}

DispatchedMethods ==
    {"setBreakpointByUrl", "removeBreakpoint", "stepOver", "stepInto", "stepOut",
     "resume", "getScriptSource", "evaluateOnCallFrame"}

Payloads == {<<>>, <<"payload">>}

\* The router as if Pause were served.
RouterResponsePause(method) ==
    IF method \in {"enable", "pause"} THEN Response("ok", <<>>)
    ELSE Response(ErrorCodeMethodNotFound, "")

RouterResponse(method) ==
    IF method = "enable" THEN Response("ok", <<>>)
    ELSE Response(ErrorCodeMethodNotFound, "")

RouterAnswer(method, payload) ==
    /\ method \in RejectedMethods \cup {"enable"}
    /\ routerOut' = [method |-> method, payload |-> payload, response |-> RouterResponse(method)]
    /\ UNCHANGED <<start, agentVars, tasks, ntasks, proxyVars, dbgVars, targetLife, halted>>

RouterEnable ==
    /\ Running /\ RouterUp
    /\ \E payload \in Payloads : RouterAnswer("enable", payload)

RouterReject ==
    /\ Running /\ RouterUp
    /\ \E method \in RejectedMethods, payload \in Payloads : RouterAnswer(method, payload)

FirstPc(kind) ==
    CASE kind = "setBreakpointByUrl" -> "sb_validate"
      [] kind = "removeBreakpoint" -> "rb_delete"
      [] kind = "getScriptSource" -> "gs_read"
      [] kind = "evaluateOnCallFrame" -> "ev_parse"
      [] OTHER -> "st_dest"

NewTask(kind, cmd) == [IdleTask EXCEPT !.kind = kind, !.pc = FirstPc(kind), !.cmd = cmd]

\* The router calling the handler itself instead of starting a goroutine: it
\* reaches its select again once the earlier handlers have left.
GoAfterReturn(kind, cmd) ==
    /\ Running /\ RouterUp
    /\ kind \in DispatchedMethods
    /\ ntasks < MaxTasks
    /\ \A t \in HandlerIds : tasks[t].pc \in {"idle", "done", "panic"}
    /\ ntasks' = ntasks + 1
    /\ tasks' = [tasks EXCEPT ![ntasks + 1] = NewTask(kind, cmd)]
    /\ UNCHANGED <<start, routerOut, agentVars, proxyVars, dbgVars, targetLife, halted>>

\* "go handler(command)" for a command that arrives while earlier handlers may
\* still run: MaxTasks bounds the commands the front-end sends.
Go(kind, cmd) ==
    /\ Running /\ RouterUp
    /\ kind \in DispatchedMethods
    /\ ntasks < MaxTasks
    /\ ntasks' = ntasks + 1
    /\ tasks' = [tasks EXCEPT ![ntasks + 1] = NewTask(kind, cmd)]
    /\ UNCHANGED <<start, routerOut, agentVars, proxyVars, dbgVars, targetLife, halted>>

\* "go handler(command)" for a front-end that sends its next command once the
\* handlers of the earlier ones have returned: of a goroutine that returned
\* nothing is left, and any number of commands may follow one another.
GoWhenIdle(kind, cmd) ==
    /\ Running /\ RouterUp
    /\ kind \in DispatchedMethods
    /\ \A t \in HandlerIds : tasks[t].pc \in {"idle", "done"}
    /\ ntasks' = 1
    /\ tasks' = [t \in TaskIds |->
                    IF t = 1 THEN NewTask(kind, cmd)
                    ELSE IF t \in HandlerIds THEN IdleTask ELSE tasks[t]]
    /\ UNCHANGED <<start, routerOut, agentVars, proxyVars, dbgVars, targetLife, halted>>

(***************************************************************************)
(* setBreakpointAndRespond, sendBreakpointSet, removeBreakpointAndRespond  *)
(***************************************************************************)
\* The commands the front-end sends: each optional parameter absent, present
\* with the value the handler accepts, or present with one it refuses; at most
\* one parameter of a command is one the handler refuses.
RefusedParams(cmd) ==
    {param \in {"urlRegex", "columnNumber", "condition", "url"} :
        \/ param = "urlRegex" /\ cmd.urlRegex # <<>>
        \/ param = "columnNumber" /\ cmd.columnNumber = <<1>>
        \/ param = "condition" /\ cmd.condition = <<"x > 1">>
        \/ param = "url" /\ cmd.url = <<>>}

SetBreakpointByUrlCommands ==
    {cmd \in [url : {<<>>, <<SourceFile>>}, lineNumber : Lines, columnNumber : {<<>>, <<0>>, <<1>>},
              condition : {<<>>, <<"">>, <<"x > 1">>}, urlRegex : {<<>>, <<".*">>}] :
        Cardinality(RefusedParams(cmd)) <= 1}

\* "a%x" of the SHA-1 of "%s:%d": SHA-1 is taken to be injective on the
\* formatted text, which is the pair (url, line) since %d holds no colon.
Fingerprint(url, line) == <<"a", url, line>>

UnknownBreakpointId == <<"b", "", 0>>

RemoveBreakpointCommands ==
    [breakpointId : {Fingerprint(SourceFile, l) : l \in Lines} \cup {UnknownBreakpointId}]

buildLocation(file, line) == [scriptId |-> file, lineNumber |-> line]

\* The line handed to the debugger without the conversion.
BackendLineSame(lineNumber) == lineNumber

BackendLine(lineNumber) == lineNumber + 1

\* The validation without its check of the condition.
InvalidReasonNoCondition(cmd) ==
    IF cmd.urlRegex # <<>> THEN "urlRegex not available"
    ELSE IF cmd.columnNumber # <<>> /\ cmd.columnNumber[1] # 0 THEN "columnNumber not available"
    ELSE IF cmd.url = <<>> THEN "url must be set"
    ELSE ""

InvalidReason(cmd) ==
    IF cmd.urlRegex # <<>> THEN "urlRegex not available"
    ELSE IF cmd.columnNumber # <<>> /\ cmd.columnNumber[1] # 0 THEN "columnNumber not available"
    ELSE IF cmd.condition # <<>> /\ cmd.condition[1] # "" THEN "condition not available"
    ELSE IF cmd.url = <<>> THEN "url must be set"
    ELSE ""

sendBreakpointSet(cmd, breakpointId) ==
    Response("ok", [breakpointId |-> breakpointId,
                    locations |-> <<buildLocation(cmd.url[1], cmd.lineNumber)>>])

DispatchSetBreakpointByUrl == \E cmd \in SetBreakpointByUrlCommands : Go("setBreakpointByUrl", cmd)

DispatchRemoveBreakpoint == \E cmd \in RemoveBreakpointCommands : Go("removeBreakpoint", cmd)

setBreakpointValidate(t) ==
    /\ Running /\ tasks[t].pc = "sb_validate"
    /\ LET cmd == tasks[t].cmd
       IN  tasks' = [tasks EXCEPT ![t] =
              IF InvalidReason(cmd) # ""
              THEN Return(t, <<Response(ErrorCodeInvalidParams, InvalidReason(cmd))>>)
              ELSE [Step(t, "sb_lock", <<>>) EXCEPT !.key = Fingerprint(cmd.url[1], cmd.lineNumber)]]
    /\ UNCHANGED <<start, routerOut, agentVars, ntasks, proxyVars, dbgVars, targetLife, halted>>

\* The lock of breakpointsMux as a lock that excludes nobody.
BreakpointsMuxLockNone(t) == TRUE

BreakpointsMuxLock(t) == breakpointsMux = {}

setBreakpointLock(t) ==
    /\ Running /\ tasks[t].pc = "sb_lock"
    /\ BreakpointsMuxLock(t)
    /\ IF tasks[t].key \in breakpoints
       THEN /\ tasks' = [tasks EXCEPT ![t] =
                   Return(t, <<sendBreakpointSet(tasks[t].cmd, tasks[t].key)>>)]
            /\ UNCHANGED breakpointsMux
       ELSE /\ tasks' = [tasks EXCEPT ![t] = Step(t, "sb_create", <<>>)]
            /\ breakpointsMux' = breakpointsMux \cup {t}
    /\ UNCHANGED <<start, routerOut, agentVars, ntasks, activeTargets, activeGoroutineID, fileList,
                   breakpoints, activeTargetsMux, dbgVars, targetLife, halted>>

\* dbgClient.CreateBreakpointAtLine: a name is held at most once; any call may fail.
CreateBreakpointAtLine(file, line, name, ok) ==
    IF ok
    THEN /\ \A b \in dbgBreakpoints : b.name # name
         /\ dbgBreakpoints' = dbgBreakpoints \cup {[name |-> name, file |-> file, line |-> line]}
    ELSE UNCHANGED dbgBreakpoints

\* dbgClient.ClearBreakpointByName: fails when no such name is held; any call may fail.
ClearBreakpointByName(name, ok) ==
    IF ok
    THEN /\ \E b \in dbgBreakpoints : b.name = name
         /\ dbgBreakpoints' = {b \in dbgBreakpoints : b.name # name}
    ELSE UNCHANGED dbgBreakpoints

setBreakpointCreate(t) ==
    /\ Running /\ tasks[t].pc = "sb_create"
    /\ LET cmd == tasks[t].cmd
           key == tasks[t].key
           call == Call("CreateBreakpointAtLine", <<cmd.url[1], BackendLine(cmd.lineNumber), key>>)
       IN  \E ok \in BOOLEAN :
             /\ CreateBreakpointAtLine(cmd.url[1], BackendLine(cmd.lineNumber), key, ok)
             /\ IF ok
                THEN /\ breakpoints' = breakpoints \cup {key}
                     /\ tasks' = [tasks EXCEPT ![t] =
                            Return(t, <<call, sendBreakpointSet(cmd, key)>>)]
                ELSE /\ breakpoints' = breakpoints \ {key}
                     /\ tasks' = [tasks EXCEPT ![t] =
                            Return(t, <<call, Response(ErrorCodeInternalError,
                                                             ErrText("CreateBreakpointAtLine"))>>)]
    /\ breakpointsMux' = breakpointsMux \ {t}
    /\ UNCHANGED <<start, routerOut, agentVars, ntasks, activeTargets, activeGoroutineID, fileList,
                   activeTargetsMux, dbgRoutines, targetLife, halted>>

removeBreakpointDelete(t) ==
    /\ Running /\ tasks[t].pc = "rb_delete"
    /\ BreakpointsMuxLock(t)
    /\ breakpoints' = breakpoints \ {tasks[t].cmd.breakpointId}
    /\ tasks' = [tasks EXCEPT ![t] = Step(t, "rb_clear", <<>>)]
    /\ UNCHANGED <<start, routerOut, agentVars, ntasks, activeTargets, activeGoroutineID, fileList,
                   breakpointsMux, activeTargetsMux, dbgVars, targetLife, halted>>

removeBreakpointClear(t) ==
    /\ Running /\ tasks[t].pc = "rb_clear"
    /\ LET id == tasks[t].cmd.breakpointId
           call == Call("ClearBreakpointByName", <<id>>)
       IN  \E ok \in BOOLEAN :
             /\ ClearBreakpointByName(id, ok)
             /\ tasks' = [tasks EXCEPT ![t] =
                    IF ok THEN Return(t, <<call, Response("ok", <<>>)>>)
                    ELSE Return(t, <<call, Response(ErrorCodeInternalError,
                                                          ErrText("ClearBreakpointByName"))>>)]
    /\ UNCHANGED <<start, routerOut, agentVars, ntasks, proxyVars, dbgRoutines, targetLife, halted>>

setBreakpointAndRespond ==
    \E t \in HandlerIds : setBreakpointValidate(t) \/ setBreakpointLock(t) \/ setBreakpointCreate(t)

removeBreakpointAndRespond ==
    \E t \in HandlerIds : removeBreakpointDelete(t) \/ removeBreakpointClear(t)

(***************************************************************************)
(* Target: Attach, Destroy, FireResumed, FirePaused                        *)
(***************************************************************************)
TargetID(id) == Itoa(id)

ShortName(routine) ==
    IF routine.fn # <<>> THEN <<" ", routine.fn[1][Len(routine.fn[1])]>> ELSE <<>>

Attach(routine) ==
    <<Event("Target.attachedToTarget", <<>>,
            [targetId |-> TargetID(routine.ID), type |-> "node", title |-> "tt",
             url |-> <<TargetID(routine.ID), ":", ShortName(routine)>>,
             waitingForDebugger |-> FALSE])>>
    \o [i \in 1..Len(fileList) |->
            Event("Debugger.scriptParsed", TargetID(routine.ID), ScriptParsedEvent(fileList[i]))]

Destroy(id) == <<Event("Target.detachedFromTarget", <<>>, [targetId |-> TargetID(id)])>>

FireResumed(id) == <<Event("Debugger.resumed", TargetID(id), <<>>)>>

buildScopeChain(frameId) ==
    << [type |-> "local", object |-> [type |-> "object", objectId |-> <<"local:", Itoa(frameId)>>]] >>

FrameLine(line) == line - 1

CallFrame(index, frame) ==
    [callFrameId |-> Itoa(index),
     functionName |-> IF frame.fn # <<>> THEN frame.fn[1] ELSE <<"<Unknown>">>,
     location |-> [scriptId |-> frame.file, lineNumber |-> FrameLine(frame.line)],
     scopeChain |-> buildScopeChain(index),
     this |-> [type |-> "undefined"]]

TargetFrameLine(line) == line - 1

TargetCallFrame(index, frame) ==
    [callFrameId |-> Itoa(index),
     functionName |-> IF frame.fn # <<>> THEN frame.fn[1] ELSE <<"<Unknown>">>,
     location |-> [scriptId |-> frame.file, lineNumber |-> TargetFrameLine(frame.line)],
     scopeChain |-> buildScopeChain(index),
     this |-> [type |-> "undefined"]]

\* routine names the routine whose Stacktrace the frames come from.
FirePaused(id, callframes) ==
    <<Event("Debugger.paused", TargetID(id),
            [reason |-> "other", routine |-> id, backend |-> callframes,
             callFrames |-> [i \in 1..Len(callframes) |-> TargetCallFrame(i - 1, callframes[i])]])>>

DefaultPaused(id, callframes) ==
    <<Event("Debugger.paused", <<>>,
            [reason |-> "other", routine |-> id, backend |-> callframes,
             callFrames |-> [i \in 1..Len(callframes) |-> CallFrame(i - 1, callframes[i])]])>>

(***************************************************************************)
(* activeTargetsMux                                                        *)
(***************************************************************************)
\* A write lock that does not wait for the readers.
LockIgnoringReaders(t) ==
    /\ activeTargetsMux.w = {}
    /\ activeTargetsMux' = [activeTargetsMux EXCEPT !.w = {t}]

Lock(t) ==
    /\ activeTargetsMux.w = {} /\ activeTargetsMux.r = {}
    /\ activeTargetsMux' = [activeTargetsMux EXCEPT !.w = {t}]

Unlock(t) == activeTargetsMux' = [activeTargetsMux EXCEPT !.w = @ \ {t}]

RLock(t) ==
    /\ activeTargetsMux.w = {}
    /\ activeTargetsMux' = [activeTargetsMux EXCEPT !.r = @ \cup {t}]

RUnlock(t) == activeTargetsMux' = [activeTargetsMux EXCEPT !.r = @ \ {t}]

\* The orders in which a range over a Go map with the keys S may visit them.
MapOrders(S) ==
    {order \in [1..Cardinality(S) -> S] : \A i, j \in 1..Cardinality(S) : order[i] = order[j] => i = j}

RECURSIVE Flatten(_)
Flatten(seqs) == IF seqs = <<>> THEN <<>> ELSE Head(seqs) \o Flatten(Tail(seqs))

(***************************************************************************)
(* stepOverAndRespond, stepIntoAndRespond, stepOutAndRespond,              *)
(* continueAndRespond: the destination, the switch and the primitive.      *)
(***************************************************************************)
StepKinds == {"stepOver", "stepInto", "stepOut"}

Primitive(kind) ==
    CASE kind = "stepOver" -> "Next"
      [] kind = "stepInto" -> "Step"
      [] kind = "stepOut" -> "StepOut"
      [] kind = "resume" -> "Continue"

DestinationTargetIDs == {<<>>, <<"x">>} \cup {Itoa(r) : r \in Routines}

StepCommands == [destinationTargetID : DestinationTargetIDs]

DispatchStep == \E kind \in StepKinds, cmd \in StepCommands : GoWhenIdle(kind, cmd)

DispatchResume == \E cmd \in StepCommands : GoWhenIdle("resume", cmd)

\* Step and resume commands that name their routine, sent without waiting.
OverlappingKinds == {"stepOver", "resume"}

OverlappingCommands == [destinationTargetID : {Itoa(r) : r \in Routines}]

DispatchOverlapping == \E kind \in OverlappingKinds, cmd \in OverlappingCommands : Go(kind, cmd)

stepDestination(t) ==
    /\ Running /\ tasks[t].pc = "st_dest"
    /\ LET dest == tasks[t].cmd.destinationTargetID
       IN  IF dest = <<>>
           THEN /\ tasks' = [tasks EXCEPT ![t] = Step(t, "st_switch", <<>>)]
                /\ UNCHANGED <<activeGoroutineID, halted>>
           ELSE IF Atoi(dest).ok
           THEN /\ activeGoroutineID' = Atoi(dest).val
                /\ tasks' = [tasks EXCEPT ![t] = Step(t, "st_switch", <<>>)]
                /\ UNCHANGED halted
           ELSE /\ tasks' = [tasks EXCEPT ![t] = Step(t, "panic",
                       <<Response(ErrorCodeInternalError, "Could not convert targetID to int")>>)]
                /\ Panic(t, "Atoi")
                /\ UNCHANGED activeGoroutineID
    /\ UNCHANGED <<start, routerOut, agentVars, ntasks, activeTargets, fileList, breakpoints,
                   breakpointsMux, activeTargetsMux, dbgVars, targetLife>>

\* The routine the handler asks the client to switch to: int(p.activeGoroutineID).
SwitchTarget(t) == activeGoroutineID

\* dbgClient.SwitchGoroutine: fails for a routine that does not live; any call may fail.
SwitchGoroutine(id, ok) == ok => id \in dbgRoutines

stepSwitch(t) ==
    /\ Running /\ tasks[t].pc = "st_switch"
    /\ LET call == Call("SwitchGoroutine", <<SwitchTarget(t)>>)
       IN  \E ok \in BOOLEAN :
             /\ SwitchGoroutine(SwitchTarget(t), ok)
             /\ IF ok
                THEN /\ tasks' = [tasks EXCEPT ![t] = Step(t, "rs_rlock",
                            IF tasks[t].kind = "resume" THEN <<call, Response("ok", <<>>)>>
                            ELSE <<call>>)]
                     /\ UNCHANGED halted
                ELSE /\ tasks' = [tasks EXCEPT ![t] = Step(t, "panic",
                            <<call, Response(ErrorCodeInternalError, ErrText("SwitchGoroutine"))>>)]
                     /\ Panic(t, "SwitchGoroutine")
    /\ UNCHANGED <<start, routerOut, agentVars, ntasks, proxyVars, dbgVars, targetLife>>

\* A handler that acknowledges the command and then calls the primitive.
StepAcknowledgedFirst(kind) == <<Response("ok", <<>>), Call(Primitive(kind), <<>>)>>

\* The primitive has returned without error, and the handler acknowledges.
StepReturned(kind) == <<Call(Primitive(kind), <<>>), Response("ok", <<>>)>>

stepPrimitive(t) ==
    /\ Running /\ tasks[t].pc = "st_prim" /\ tasks[t].kind \in StepKinds
    /\ LET call == Call(Primitive(tasks[t].kind), <<>>)
       IN  \/ /\ DebuggeeRuns
              /\ tasks' = [tasks EXCEPT ![t] = Step(t, "ps_state", StepReturned(tasks[t].kind))]
              /\ UNCHANGED halted
           \/ /\ tasks' = [tasks EXCEPT ![t] = Step(t, "panic",
                     <<call, Response(ErrorCodeInternalError, ErrText(Primitive(tasks[t].kind)))>>)]
              /\ Panic(t, Primitive(tasks[t].kind))
              /\ UNCHANGED dbgRoutines
    /\ UNCHANGED <<start, routerOut, agentVars, ntasks, proxyVars, dbgBreakpoints, targetLife>>

\* The active routine after Continue yielded a state whose selected routine
\* is sel, 0 for a state without one.
SelectedOrActive(sel) == IF sel # 0 THEN sel ELSE activeGoroutineID

\* The receive from the channel of Continue: a state, or the channel closed.
\* The call's entry in the log carries which; the handler holds the state it
\* received, with its selected routine, until it returns.
continuePrimitive(t) ==
    /\ Running /\ tasks[t].pc = "st_prim" /\ tasks[t].kind = "resume"
    /\ \/ /\ DebuggeeRuns
          /\ \E sel \in {0} \cup dbgRoutines' :
                /\ activeGoroutineID' = SelectedOrActive(sel)
                /\ tasks' = [tasks EXCEPT ![t] =
                       [Step(t, "ps_state", <<Call("Continue", <<"state">>)>>) EXCEPT !.selected = sel]]
          /\ UNCHANGED halted
       \/ /\ tasks' = [tasks EXCEPT ![t] = Step(t, "panic", <<Call("Continue", <<"closed">>)>>)]
          /\ Panic(t, "It appears program has exited")
          /\ UNCHANGED <<dbgRoutines, activeGoroutineID>>
    /\ UNCHANGED <<start, routerOut, agentVars, ntasks, activeTargets, fileList, breakpoints,
                   breakpointsMux, activeTargetsMux, dbgBreakpoints, targetLife>>

(***************************************************************************)
(* sendResumeState: RLock; every Target's FireResumed, in the map's order; *)
(* the default agent's Resumed; the deferred RUnlock.                      *)
(***************************************************************************)
resumeRLock(t) ==
    /\ Running /\ tasks[t].pc = "rs_rlock"
    /\ RLock(t)
    /\ tasks' = [tasks EXCEPT ![t] = Step(t, "rs_fire", <<>>)]
    /\ UNCHANGED <<start, routerOut, agentVars, ntasks, activeTargets, activeGoroutineID, fileList,
                   breakpoints, breakpointsMux, dbgVars, targetLife, halted>>

\* A fan-out that fires the default agent's Resumed twice.
ResumeFanOutTwice(order) ==
    Flatten([i \in 1..Len(order) |-> FireResumed(order[i])])
    \o <<Event("Debugger.resumed", <<>>, <<>>), Event("Debugger.resumed", <<>>, <<>>)>>

ResumeFanOut(order) ==
    Flatten([i \in 1..Len(order) |-> FireResumed(order[i])]) \o <<Event("Debugger.resumed", <<>>, <<>>)>>

resumeFire(t) ==
    /\ Running /\ tasks[t].pc = "rs_fire"
    /\ \E order \in MapOrders(activeTargets) :
          tasks' = [tasks EXCEPT ![t] = Step(t, "st_prim", ResumeFanOut(order))]
    /\ RUnlock(t)
    /\ UNCHANGED <<start, routerOut, agentVars, ntasks, activeTargets, activeGoroutineID, fileList,
                   breakpoints, breakpointsMux, dbgVars, targetLife, halted>>

sendResumeState == \E t \in HandlerIds : resumeRLock(t) \/ resumeFire(t)

(***************************************************************************)
(* syncGoroutines.  Its two loops run under the write lock, so no other    *)
(* goroutine sees the map between them: they are one step.                 *)
(***************************************************************************)
SyncEvents(routines, gone) ==
    Flatten([i \in 1..Len(routines) |->
                IF routines[i].ID \in activeTargets THEN <<>> ELSE Attach(routines[i])])
    \o Flatten([i \in 1..Len(gone) |-> Destroy(gone[i])])

SyncLife(found, gone) ==
    [id \in DOMAIN targetLife |->
        IF \E r \in found \ activeTargets : TargetID(r) = id THEN "attached"
        ELSE IF \E r \in gone : TargetID(r) = id THEN "detached"
        ELSE targetLife[id]]

\* A sync whose second loop does not delete from the map.
SyncTargetsNoDelete(found) == activeTargets \cup found

\* The map after the two loops: the found routines added, the others deleted.
SyncTargets(found) == (activeTargets \cup found) \ (activeTargets \ found)

syncList(t) ==
    /\ Running /\ tasks[t].pc = "sync_list"
    /\ LET call == Call("ListGoroutines", <<>>)
           routines == ListGoroutinesResult
           foundTargets == {routines[i].ID : i \in 1..Len(routines)}
       IN  \/ /\ \E gone \in MapOrders(activeTargets \ foundTargets) :
                    tasks' = [tasks EXCEPT ![t] =
                        Step(t, "sync_active", <<call>> \o SyncEvents(routines, gone))]
              /\ activeTargets' = SyncTargets(foundTargets)
              /\ targetLife' = SyncLife(foundTargets, activeTargets \ foundTargets)
              /\ UNCHANGED halted
           \/ /\ tasks' = [tasks EXCEPT ![t] = Step(t, "panic", <<call>>)]
              /\ Panic(t, "ListGoroutines")
              /\ UNCHANGED <<activeTargets, targetLife>>
    /\ UNCHANGED <<start, routerOut, agentVars, ntasks, activeGoroutineID, fileList, breakpoints,
                   breakpointsMux, activeTargetsMux, dbgVars>>

\* What follows syncGoroutines in sendPauseState: the deferred Unlock, then the
\* check of the state that GetState returned.
syncReturn(t) ==
    /\ Unlock(t)
    /\ IF tasks[t].state = "nil"
       THEN /\ tasks' = [tasks EXCEPT ![t] = Step(t, "panic", <<>>)]
            /\ Panic(t, "Called sendPauseState() but not paused.")
       ELSE /\ tasks' = [tasks EXCEPT ![t] = Step(t, "ps_rlock", <<>>)]
            /\ UNCHANGED halted

\* A sync that takes the active routine for a key of the map without looking.
ActiveAssumedAttached == TRUE

\* _, ok := p.activeTargets[p.activeGoroutineID]
ActiveAttached == activeGoroutineID \in activeTargets

syncActive(t) ==
    /\ Running /\ tasks[t].pc = "sync_active"
    /\ IF ActiveAttached
       THEN syncReturn(t)
       ELSE /\ tasks' = [tasks EXCEPT ![t] = Step(t, "sync_pick", <<>>)]
            /\ UNCHANGED <<activeTargetsMux, halted>>
    /\ UNCHANGED <<start, routerOut, agentVars, ntasks, activeTargets, activeGoroutineID, fileList,
                   breakpoints, breakpointsMux, dbgVars, targetLife>>

syncPick(t) ==
    /\ Running /\ tasks[t].pc = "sync_pick"
    /\ IF activeTargets = {}
       THEN UNCHANGED activeGoroutineID
       ELSE \E index \in activeTargets : activeGoroutineID' = index
    /\ syncReturn(t)
    /\ UNCHANGED <<start, routerOut, agentVars, ntasks, activeTargets, fileList,
                   breakpoints, breakpointsMux, dbgVars, targetLife>>

syncGoroutines == \E t \in TaskIds : syncList(t) \/ syncActive(t) \/ syncPick(t)

(***************************************************************************)
(* sendPauseState                                                          *)
(***************************************************************************)
\* GetState, then syncGoroutines' Lock: the goroutine waits for the lock with
\* the state in hand.
pauseGetState(t) ==
    /\ Running /\ tasks[t].pc = "ps_state"
    /\ LET call == Call("GetState", <<>>)
       IN  \/ /\ \E state \in {"nil", "paused"} :
                    tasks' = [tasks EXCEPT ![t] = [Step(t, "sync_list", <<call>>) EXCEPT !.state = state]]
              /\ Lock(t)
              /\ UNCHANGED halted
           \/ /\ tasks' = [tasks EXCEPT ![t] = Step(t, "panic", <<call>>)]
              /\ Panic(t, "GetState")
              /\ UNCHANGED activeTargetsMux
    /\ UNCHANGED <<start, routerOut, agentVars, ntasks, activeTargets, activeGoroutineID, fileList,
                   breakpoints, breakpointsMux, dbgVars, targetLife>>

pauseRLock(t) ==
    /\ Running /\ tasks[t].pc = "ps_rlock"
    /\ RLock(t)
    /\ tasks' = [tasks EXCEPT ![t] =
            [Step(t, "ps_stack", <<>>) EXCEPT !.todo = activeTargets,
                                              !.activeStack = <<>>, !.targetsStacks = {}]]
    /\ UNCHANGED <<start, routerOut, agentVars, ntasks, activeTargets, activeGoroutineID, fileList,
                   breakpoints, breakpointsMux, dbgVars, targetLife, halted>>

\* dbgClient.Stacktrace: fails for a routine that does not live; any call may fail.
Stacktrace(id, ok) == ok => id \in dbgRoutines

MaxStackDepth == 50

\* Whether the snapshot takes routineID for the active routine.
IsActive(routineID) == routineID = activeGoroutineID

pauseStack(t) ==
    /\ Running /\ tasks[t].pc = "ps_stack"
    /\ \E routineID \in tasks[t].todo :
         LET call == Call("Stacktrace", <<routineID, MaxStackDepth>>)
             entry == [id |-> routineID, stack |-> StackOf(routineID)]
         IN  \E ok \in BOOLEAN :
               /\ Stacktrace(routineID, ok)
               /\ IF ~ok
                  THEN /\ tasks' = [tasks EXCEPT ![t] = Step(t, "panic", <<call>>)]
                       /\ Panic(t, "Stacktrace")
                  ELSE /\ tasks' = [tasks EXCEPT ![t] =
                              IF IsActive(routineID)
                              THEN [Step(t, "ps_stack", <<call>>) EXCEPT
                                       !.todo = @ \ {routineID}, !.activeStack = <<entry>>]
                              ELSE [Step(t, "ps_stack", <<call>>) EXCEPT
                                       !.todo = @ \ {routineID}, !.targetsStacks = @ \cup {entry}]]
                       /\ UNCHANGED halted
    /\ UNCHANGED <<start, routerOut, agentVars, ntasks, proxyVars, dbgVars, targetLife>>

\* The RUnlock and what the snapshot sends on the default agent.
pauseDefault(t) ==
    /\ Running /\ tasks[t].pc = "ps_stack" /\ tasks[t].todo = {}
    /\ RUnlock(t)
    /\ LET paused == IF tasks[t].activeStack = <<>> THEN <<>>
                     ELSE DefaultPaused(tasks[t].activeStack[1].id, tasks[t].activeStack[1].stack)
       IN  tasks' = [tasks EXCEPT ![t] =
               IF tasks[t].targetsStacks = {} THEN Return(t, paused)
               ELSE Step(t, "ps_targets", paused)]
    /\ UNCHANGED <<start, routerOut, agentVars, ntasks, activeTargets, activeGoroutineID, fileList,
                   breakpoints, breakpointsMux, dbgVars, targetLife, halted>>

\* The range over targetsStacks: every other Target's FirePaused.
SnapshotOrder(t) == MapOrders(tasks[t].targetsStacks)

\* The Targets' Paused events with the default agent's Paused sent after them.
pauseFanOutThenDefault(t, order) ==
    Flatten([i \in 1..Len(order) |-> FirePaused(order[i].id, order[i].stack)])
    \o (IF tasks[t].activeStack = <<>> THEN <<>>
        ELSE DefaultPaused(tasks[t].activeStack[1].id, tasks[t].activeStack[1].stack))

pauseFanOut(t, order) ==
    Flatten([i \in 1..Len(order) |-> FirePaused(order[i].id, order[i].stack)])

pauseTargets(t) ==
    /\ Running /\ tasks[t].pc = "ps_targets"
    /\ \E order \in SnapshotOrder(t) :
          tasks' = [tasks EXCEPT ![t] =
              Return(t, pauseFanOut(t, order))]
    /\ UNCHANGED <<start, routerOut, agentVars, ntasks, proxyVars, dbgVars, targetLife, halted>>

sendPauseState ==
    \E t \in TaskIds : pauseGetState(t) \/ pauseRLock(t) \/ pauseStack(t) \/ pauseDefault(t) \/ pauseTargets(t)

stepAndRespond == \E t \in HandlerIds : stepDestination(t) \/ stepSwitch(t) \/ stepPrimitive(t)

continueAndRespond == \E t \in HandlerIds : continuePrimitive(t)

(***************************************************************************)
(* The SystemInfo agent.                                                   *)
(***************************************************************************)
MaxHandler == 2

\* The nil func.
Nil == 0

\* What a read of a func value may yield besides the old and the new value
\* when it races with a write.
Torn == 0 - 1

IdleCall == [pc |-> "idle", funcName |-> "", fn |-> Nil, log |-> <<>>]

NewAgent ==
    /\ getInfo = [fn |-> Nil, mux |-> [w |-> {}, r |-> {}]]
    /\ agentCalls = [a \in HandlerIds |-> IdleCall]
    /\ agentSetters = [s \in HandlerIds |-> [pc |-> "idle", handler |-> Nil]]
    /\ handlersSet = <<>>

\* mux.Lock of a lock that lets a writer in beside the readers.
GetInfoLockIgnoringReaders(s) ==
    /\ getInfo.mux.w = {}
    /\ getInfo' = [getInfo EXCEPT !.mux.w = {s}]

GetInfoLock(s) ==
    /\ getInfo.mux.w = {} /\ getInfo.mux.r = {}
    /\ getInfo' = [getInfo EXCEPT !.mux.w = {s}]

\* The values a read of a.fn may yield: the field, or, when a Store is about
\* to write it at the same time, any of the old value, the new one and a mix.
FnRead ==
    LET writing == {s \in HandlerIds : agentSetters[s].pc = "write"}
    IN  IF writing = {} THEN {getInfo.fn}
        ELSE {getInfo.fn, Torn} \cup {agentSetters[s].handler : s \in writing}

\* GetInfoCommandFn.Store(fn) in the call s of SetGetInfoHandler: Lock, then
\* a.fn = fn, then the deferred Unlock, with which SetGetInfoHandler returns.
Store(s, fn) ==
    /\ Running
    /\ \/ /\ agentSetters[s].pc = "idle"
          /\ \A q \in 1..(s - 1) : agentSetters[q].pc # "idle"
          /\ GetInfoLock(s)
          /\ agentSetters' = [agentSetters EXCEPT ![s] = [pc |-> "write", handler |-> fn]]
          /\ UNCHANGED handlersSet
       \/ /\ agentSetters[s].pc = "write" /\ agentSetters[s].handler = fn
          /\ getInfo' = [getInfo EXCEPT !.fn = fn]
          /\ agentSetters' = [agentSetters EXCEPT ![s].pc = "unlock"]
          /\ UNCHANGED handlersSet
       \/ /\ agentSetters[s].pc = "unlock" /\ agentSetters[s].handler = fn
          /\ getInfo' = [getInfo EXCEPT !.mux.w = @ \ {s}]
          /\ agentSetters' = [agentSetters EXCEPT ![s].pc = "done"]
          /\ handlersSet' = Append(handlersSet, fn)
    /\ UNCHANGED <<start, routerOut, tasks, ntasks, proxyVars, dbgVars, targetLife, halted,
                   agentCalls>>

SetGetInfoHandler == \E s \in HandlerIds, handler \in {Nil} \cup (1..MaxHandler) : Store(s, handler)

\* ProcessCommand up to the switch on funcName: "getInfo" sets the command up,
\* any other name is answered with MethodNotFound and the call returns.
processSwitch(a, funcName) ==
    /\ Running /\ agentCalls[a].pc = "idle"
    /\ \A b \in 1..(a - 1) : agentCalls[b].pc # "idle"
    /\ agentCalls' = [agentCalls EXCEPT ![a] =
          IF funcName = "getInfo"
          THEN [IdleCall EXCEPT !.pc = "rlock", !.funcName = funcName,
                                !.log = <<Call("SetupCommand", <<>>)>>]
          ELSE [IdleCall EXCEPT !.pc = "done", !.funcName = funcName,
                                !.log = <<Response(ErrorCodeMethodNotFound, "")>>]]
    /\ UNCHANGED <<start, routerOut, tasks, ntasks, proxyVars, dbgVars, targetLife, halted,
                   getInfo, agentSetters, handlersSet>>

\* GetInfoCommandFn.Load() in the call a of ProcessCommand: RLock, then the
\* value of a.fn, then the deferred RUnlock.
Load(a) ==
    /\ Running
    /\ \/ /\ agentCalls[a].pc = "rlock"
          /\ getInfo.mux.w = {}
          /\ getInfo' = [getInfo EXCEPT !.mux.r = @ \cup {a}]
          /\ agentCalls' = [agentCalls EXCEPT ![a].pc = "read"]
       \/ /\ agentCalls[a].pc = "read"
          /\ \E fn \in FnRead :
                agentCalls' = [agentCalls EXCEPT ![a].pc = "runlock", ![a].fn = fn]
          /\ UNCHANGED getInfo
       \/ /\ agentCalls[a].pc = "runlock"
          /\ getInfo' = [getInfo EXCEPT !.mux.r = @ \ {a}]
          /\ agentCalls' = [agentCalls EXCEPT ![a].pc = "fn"]
    /\ UNCHANGED <<start, routerOut, tasks, ntasks, proxyVars, dbgVars, targetLife, halted,
                   agentSetters, handlersSet>>

\* The nil check and the call of the handler, which returns or panics with a
\* shared.Warning, a shared.Error, an error or anything else; the deferred
\* recover prints the first, prints the next two and closes the connection,
\* and panics again with the last.
processInvoke(a) ==
    /\ Running /\ agentCalls[a].pc = "fn"
    /\ IF agentCalls[a].fn = Nil
       THEN /\ agentCalls' = [agentCalls EXCEPT ![a].pc = "done",
                                 ![a].log = @ \o <<Response(ErrorCodeMethodNotFound, "")>>]
            /\ UNCHANGED halted
       ELSE \E outcome \in {"return", "Warning", "Error", "error", "other"} :
               /\ agentCalls' = [agentCalls EXCEPT
                     ![a].pc = IF outcome = "other" THEN "panic" ELSE "done",
                     ![a].log = @ \o <<Call("fn", <<agentCalls[a].fn>>)>>
                                  \o IF outcome \in {"Error", "error"}
                                     THEN <<Call("Close", <<>>)>> ELSE <<>>]
               /\ IF outcome = "other" THEN Panic(a, "fn") ELSE UNCHANGED halted
    /\ UNCHANGED <<start, routerOut, tasks, ntasks, proxyVars, dbgVars, targetLife,
                   getInfo, agentSetters, handlersSet>>

ProcessCommand ==
    \E a \in HandlerIds :
        \/ \E funcName \in {"getInfo", "getProcessInfo", "GetInfo"} : processSwitch(a, funcName)
        \/ Load(a)
        \/ processInvoke(a)

(***************************************************************************)
(* Specifications.                                                         *)
(***************************************************************************)
NewProxy ==
    /\ start = [pc |-> "enable", sources |-> <<>>, i |-> 0, log |-> <<>>]
    /\ routerOut = [method |-> "none", payload |-> <<>>, response |-> Response("none", <<>>)]
    /\ tasks = [t \in TaskIds |-> IdleTask]
    /\ ntasks = 0
    /\ activeTargets = {}
    /\ activeGoroutineID = 0
    /\ fileList = <<>>
    /\ breakpoints = {}
    /\ breakpointsMux = {}
    /\ activeTargetsMux = [w |-> {}, r |-> {}]
    /\ targetLife = [id \in {Itoa(r) : r \in Routines} |-> "never"]
    /\ halted = NotHalted

Init ==
    /\ NewProxy
    /\ NewAgent
    /\ dbgRoutines = Routines
    /\ dbgBreakpoints = {}

\* The breakpoint registry on its own: the debugger is not ready yet, so
\* Start waits in BlockUntilReady while the router serves breakpoint commands.
NextBreakpoints ==
    \/ StartEnable
    \/ DispatchSetBreakpointByUrl
    \/ DispatchRemoveBreakpoint
    \/ setBreakpointAndRespond
    \/ removeBreakpointAndRespond

SpecBreakpoints == Init /\ [][NextBreakpoints]_vars

(***************************************************************************)
(* evaluateOnGoroutineAndRespond                                           *)
(***************************************************************************)
EvaluateCommands ==
    [destinationTargetID : {<<>>, <<"x">>} \cup {Itoa(r) : r \in Routines},
     callFrameId : {<<"0">>, <<"1">>, <<"x">>},
     expression : {"v", "oops"}]

DispatchEvaluate == \E cmd \in EvaluateCommands : GoWhenIdle("evaluateOnCallFrame", cmd)

evaluateParse(t) ==
    /\ Running /\ tasks[t].pc = "ev_parse"
    /\ LET cmd == tasks[t].cmd
           dest == Atoi(cmd.destinationTargetID)
           frameId == Atoi(cmd.callFrameId)
           goroutineID == IF cmd.destinationTargetID # <<>> THEN dest.val ELSE activeGoroutineID
       IN  IF cmd.destinationTargetID # <<>> /\ ~dest.ok
           THEN /\ tasks' = [tasks EXCEPT ![t] = Step(t, "panic",
                       <<Response(ErrorCodeInternalError, "Could not convert targetID to int")>>)]
                /\ Panic(t, "Atoi")
           ELSE IF ~frameId.ok
           THEN /\ tasks' = [tasks EXCEPT ![t] = Step(t, "panic", <<>>)]
                /\ Panic(t, "Atoi")
           ELSE /\ tasks' = [tasks EXCEPT ![t] =
                       [Step(t, "ev_eval", <<>>) EXCEPT
                           !.scope = [GoroutineID |-> goroutineID, Frame |-> frameId.val]]]
                /\ UNCHANGED halted
    /\ UNCHANGED <<start, routerOut, agentVars, ntasks, proxyVars, dbgVars, targetLife>>

\* dbgClient.EvalVariable: fails outside the stack of a live routine; any call
\* may fail.  The call's entry in the log carries how it returned.
EvalVariable(scope, ok) ==
    ok => /\ scope.GoroutineID \in dbgRoutines
          /\ scope.Frame \in 0..(Len(StackOf(scope.GoroutineID)) - 1)

\* runtimer.MakeRemoteObject
MakeRemoteObject(variable) == [type |-> "object", description |-> variable]

\* The handler answering an evaluator failure as it answers other failures.
evaluateRespondWithError(expression, scope, ok) ==
    IF ok
    THEN Response("ok", [result |-> <<[type |-> "object", description |-> <<expression, scope>>]>>,
                         exceptionDetails |-> <<>>])
    ELSE Response(ErrorCodeInternalError, ErrText("EvalVariable"))

\* What the handler answers once EvalVariable has returned.
evaluateRespond(expression, scope, ok) ==
    IF ok
    THEN Response("ok", [result |-> <<MakeRemoteObject(<<expression, scope>>)>>,
                         exceptionDetails |-> <<>>])
    ELSE Response("ok", [result |-> <<>>,
                         exceptionDetails |-> <<[exceptionId |-> 1, text |-> ErrText("EvalVariable"),
                                                 lineNumber |-> 0 - 1, columnNumber |-> 0 - 1]>>])

evaluateEval(t) ==
    /\ Running /\ tasks[t].pc = "ev_eval"
    /\ LET cmd == tasks[t].cmd
           scope == tasks[t].scope
       IN  \E ok \in BOOLEAN :
             /\ EvalVariable(scope, ok)
             /\ tasks' = [tasks EXCEPT ![t] =
                    Return(t, <<Call("EvalVariable", <<scope, cmd.expression, IF ok THEN "ok" ELSE "err">>),
                                evaluateRespond(cmd.expression, scope, ok)>>)]
    /\ UNCHANGED <<start, routerOut, agentVars, ntasks, proxyVars, dbgVars, targetLife, halted>>

evaluateOnGoroutineAndRespond == \E t \in HandlerIds : evaluateParse(t) \/ evaluateEval(t)

(***************************************************************************)
(* getFileAndRespond                                                       *)
(***************************************************************************)
FilesOnDisk == {SourceFile, "/a/c.src"}

GetScriptSourceCommands == [scriptId : {SourceFile, "/a/missing.src"}]

DispatchGetScriptSource == \E cmd \in GetScriptSourceCommands : GoWhenIdle("getScriptSource", cmd)

getFileAndRespond ==
    \E t \in HandlerIds :
        /\ Running /\ tasks[t].pc = "gs_read"
        /\ LET file == tasks[t].cmd.scriptId
           IN  IF file \in FilesOnDisk
               THEN /\ tasks' = [tasks EXCEPT ![t] =
                           Return(t, <<Response("ok", [scriptSource |-> <<"bytes of", file>>])>>)]
                    /\ UNCHANGED halted
               ELSE /\ tasks' = [tasks EXCEPT ![t] = Step(t, "panic", <<>>)]
                    /\ Panic(t, "ReadFile")
        /\ UNCHANGED <<start, routerOut, agentVars, ntasks, proxyVars, dbgVars, targetLife>>

\* The proxy once Start has returned and its sendPauseState has sent the first
\* snapshot, in the run of SpecStartup where the debugger selects routine 1,
\* lists the first of SourceLists and Start finishes before the snapshot begins.
StartedLog ==
    <<Response("ok", <<>>), Call("BlockUntilReady", <<>>), Call("GetState", <<1>>),
      Call("ListSources", <<>>), Event("Debugger.scriptParsed", <<>>, ScriptParsedEvent(SourceFile))>>

FirstSnapshotLog ==
    LET ids == SortedSeq(Routines)
    IN  <<Call("GetState", <<>>), Call("ListGoroutines", <<>>)>>
        \o Flatten([i \in 1..Len(ids) |-> Attach(GoroutineOf(ids[i]))])
        \o [i \in 1..Len(ids) |-> Call("Stacktrace", <<ids[i], MaxStackDepth>>)]
        \o DefaultPaused(1, StackOf(1))
        \o Flatten([i \in 1..(Len(ids) - 1) |-> FirePaused(ids[i + 1], StackOf(ids[i + 1]))])

Started ==
    /\ start = [pc |-> "done", sources |-> <<"<autogenerated>", SourceFile>>, i |-> 3, log |-> StartedLog]
    /\ routerOut = [method |-> "none", payload |-> <<>>, response |-> Response("none", <<>>)]
    /\ ntasks = 0
    /\ activeTargets = Routines
    /\ activeGoroutineID = 1
    /\ fileList = <<SourceFile>>
    /\ breakpoints = {}
    /\ breakpointsMux = {}
    /\ activeTargetsMux = [w |-> {}, r |-> {}]
    /\ targetLife = [id \in {Itoa(r) : r \in Routines} |-> "attached"]
    /\ NewAgent
    /\ halted = NotHalted
    /\ dbgRoutines = Routines
    /\ dbgBreakpoints = {}
    /\ tasks = [t \in TaskIds |->
                  IF t = 0
                  THEN [IdleTask EXCEPT !.kind = "sendPauseState", !.pc = "done", !.log = FirstSnapshotLog]
                  ELSE IdleTask]

\* A front-end that sends step and resume commands without waiting.
NextOverlap ==
    \/ DispatchOverlapping
    \/ stepAndRespond
    \/ continueAndRespond
    \/ sendResumeState
    \/ syncGoroutines
    \/ sendPauseState

SpecOverlap == Started /\ [][NextOverlap]_vars

\* A front-end that steps, resumes, evaluates and reads sources, one command
\* after the other.
NextStep ==
    \/ DispatchStep
    \/ DispatchResume
    \/ DispatchEvaluate
    \/ DispatchGetScriptSource
    \/ stepAndRespond
    \/ continueAndRespond
    \/ sendResumeState
    \/ syncGoroutines
    \/ sendPauseState
    \/ evaluateOnGoroutineAndRespond
    \/ getFileAndRespond

SpecStep == Started /\ [][NextStep]_vars

\* A front-end that sets and removes breakpoints, steps, resumes, evaluates and
\* reads sources, one command after the other.
DispatchSetBreakpointNext == \E cmd \in SetBreakpointByUrlCommands : GoWhenIdle("setBreakpointByUrl", cmd)

DispatchRemoveBreakpointNext == \E cmd \in RemoveBreakpointCommands : GoWhenIdle("removeBreakpoint", cmd)

Next ==
    \/ DispatchSetBreakpointNext
    \/ DispatchRemoveBreakpointNext
    \/ DispatchStep
    \/ DispatchResume
    \/ DispatchEvaluate
    \/ DispatchGetScriptSource
    \/ setBreakpointAndRespond
    \/ removeBreakpointAndRespond
    \/ stepAndRespond
    \/ continueAndRespond
    \/ sendResumeState
    \/ syncGoroutines
    \/ sendPauseState
    \/ evaluateOnGoroutineAndRespond
    \/ getFileAndRespond

Spec == Started /\ [][Next]_vars

\* A front-end that sets breakpoints and steps, one command after the other.
NextLines ==
    \/ DispatchSetBreakpointNext
    \/ DispatchStep
    \/ setBreakpointAndRespond
    \/ stepAndRespond
    \/ sendResumeState
    \/ syncGoroutines
    \/ sendPauseState

SpecLines == Started /\ [][NextLines]_vars

\* The router's own answers while Start and its snapshot run, from construction.
NextRouter ==
    \/ Start
    \/ RouterEnable
    \/ RouterReject
    \/ syncGoroutines
    \/ sendPauseState

SpecRouter == Init /\ [][NextRouter]_vars

\* Start and the snapshot it spawns, from construction.
NextStartup ==
    \/ Start
    \/ syncGoroutines
    \/ sendPauseState

SpecStartup == Init /\ [][NextStartup]_vars

\* Start and its snapshot while the front-end asks for script sources.
NextStart ==
    \/ Start
    \/ DispatchGetScriptSource
    \/ getFileAndRespond
    \/ syncGoroutines
    \/ sendPauseState

SpecStart == Init /\ [][NextStart]_vars

(***************************************************************************)
(* The router's select loop, a command at a time: the command it has read  *)
(* from the channel, and the case of the select that handles it.  The      *)
(* debugger does not return from Next or Continue here, so a handler that  *)
(* reached its primitive stays blocked in it.                              *)
(***************************************************************************)
\* The router has read a command and has neither answered it nor started its
\* handler.
Pending == routerOut.response.name = "pending" /\ routerOut.response.arg[1] = ntasks

\* The rejected commands a front-end sends while the debuggee runs; the
\* router answers every rejected method alike (RouterResponse).
ArrivingRejected == {"pause", "setPauseOnExceptions"}

RouterArrive ==
    /\ Running /\ RouterUp /\ ~Pending
    /\ \/ \E method \in ArrivingRejected :
              routerOut' = [method |-> method, payload |-> <<>>,
                            response |-> Response("pending", <<ntasks>>)]
       \/ /\ ntasks < MaxTasks
          /\ \E kind \in OverlappingKinds, cmd \in [destinationTargetID : {<<>>}] :
                routerOut' = [method |-> kind, payload |-> cmd,
                              response |-> Response("pending", <<ntasks>>)]
    /\ UNCHANGED <<start, agentVars, tasks, ntasks, proxyVars, dbgVars, targetLife, halted>>

RouterServe ==
    /\ Running /\ RouterUp /\ Pending
    /\ \/ RouterAnswer(routerOut.method, routerOut.payload)
       \/ Go(routerOut.method, routerOut.payload)

NextResponsive ==
    \/ RouterArrive
    \/ RouterServe
    \/ \E t \in HandlerIds : stepDestination(t) \/ stepSwitch(t)
    \/ sendResumeState

\* The router goroutine is runnable whenever it has a command in hand, and
\* the Go scheduler runs a runnable goroutine; nothing is assumed of the
\* handlers.
SpecResponsive == Started /\ [][NextResponsive]_vars /\ WF_vars(RouterServe)

(***************************************************************************)
(* A front-end that sends its step and resume commands one at a time, the  *)
(* next once the previous one has been answered, after the first snapshot. *)
(***************************************************************************)
\* The handler t has answered its command.
Answered(t) == \E i \in DOMAIN tasks[t].log : tasks[t].log[i].op = "respond"

GoWhenAnswered(kind, cmd) ==
    /\ \A t \in 1..ntasks : Answered(t)
    /\ Go(kind, cmd)

DispatchAnswered ==
    \E kind \in StepKinds \cup {"resume"}, cmd \in [destinationTargetID : {<<>>}] :
        GoWhenAnswered(kind, cmd)

NextAlternate ==
    \/ DispatchAnswered
    \/ stepAndRespond
    \/ continueAndRespond
    \/ sendResumeState
    \/ syncGoroutines
    \/ sendPauseState

SpecAlternate == Started /\ [][NextAlternate]_vars

\* The SystemInfo agent on its own: commands of its domain and calls of
\* SetGetInfoHandler arrive in any order and overlap.
NextAgent ==
    \/ ProcessCommand
    \/ SetGetInfoHandler

SpecAgent == Init /\ [][NextAgent]_vars

(***************************************************************************)
(* Reading the logs.                                                       *)
(***************************************************************************)
LogOf(t) == tasks[t].log

IsCall(e, fn) == e.op = "call" /\ e.name = fn

IsResponse(e, code) == e.op = "respond" /\ e.name = code

InProgress(t) == tasks[t].pc \notin {"idle", "done"}

\* What the step taken adds to the log of t (a goroutine just started has
\* added nothing).
Added(t) ==
    IF Len(tasks'[t].log) >= Len(tasks[t].log) /\ tasks'[t].kind = tasks[t].kind
    THEN SubSeq(tasks'[t].log, Len(tasks[t].log) + 1, Len(tasks'[t].log))
    ELSE <<>>

Stepped(t) == tasks'[t] # tasks[t] /\ tasks[t].pc # "idle" /\ tasks'[t].kind = tasks[t].kind

SetHandlers == {t \in HandlerIds : tasks[t].kind = "setBreakpointByUrl"}

RemoveHandlers == {t \in HandlerIds : tasks[t].kind = "removeBreakpoint"}

ValidPairs == {<<SourceFile, l>> : l \in Lines}

CreateCalls(t, k) ==
    {i \in DOMAIN LogOf(t) : IsCall(LogOf(t)[i], "CreateBreakpointAtLine") /\ LogOf(t)[i].arg[3] = k}

AllCreateCalls(k) == UNION {{<<t, i>> : i \in CreateCalls(t, k)} : t \in SetHandlers}

AnsweredIds(t) ==
    {LogOf(t)[i].arg.breakpointId : i \in {j \in DOMAIN LogOf(t) : IsResponse(LogOf(t)[j], "ok")}}

\* The Set handlers that have returned and were for the pair with fingerprint k.
SetsDone(k) ==
    {t \in SetHandlers : tasks[t].pc = "done" /\ (CreateCalls(t, k) # {} \/ k \in AnsweredIds(t))}

CreateFailed(k) ==
    \E t \in SetHandlers : CreateCalls(t, k) # {} /\
        \E i \in DOMAIN LogOf(t) : IsResponse(LogOf(t)[i], ErrorCodeInternalError)

RemoveHandled(k) ==
    \E t \in RemoveHandlers :
        \/ InProgress(t) /\ tasks[t].cmd.breakpointId = k
        \/ \E i \in DOMAIN LogOf(t) :
              IsCall(LogOf(t)[i], "ClearBreakpointByName") /\ LogOf(t)[i].arg[1] = k

SameIdOneCreate(k) ==
    \A t1, t2 \in SetsDone(k) :
        t1 # t2 => /\ AnsweredIds(t1) = {k}
                   /\ AnsweredIds(t2) = {k}
                   /\ Cardinality(AllCreateCalls(k)) = 1

DebuggerHolds(k) == \E b \in dbgBreakpoints : b.name = k

\* C3 as stated: whenever no SetBreakpointByUrl or RemoveBreakpoint handler is
\* in progress, a fingerprint is in Breakpoints if and only if the debugger
\* holds a breakpoint created under that name.
C3_SetMatchesDebugger_AsStated ==
    (\A t \in HandlerIds : ~InProgress(t)) =>
        \A k \in {Fingerprint(p[1], p[2]) : p \in ValidPairs} \cup {UnknownBreakpointId} :
            k \in breakpoints <=> DebuggerHolds(k)

(***************************************************************************)
(* C7: rejected breakpoint parameters.                                     *)
(***************************************************************************)
Rejected(cmd) ==
    \/ cmd.urlRegex # <<>>
    \/ cmd.columnNumber \notin {<<>>, <<0>>}
    \/ cmd.condition \notin {<<>>, <<"">>}
    \/ cmd.url = <<>>

\* C7: a SetBreakpointByUrl with urlRegex present, a non-zero columnNumber, a
\* non-empty condition or no url is answered with InvalidParams and its handler
\* returns at once: it makes no client call, and Breakpoints and the debugger's
\* breakpoints are as they were.
C7_RejectedParams ==
    [][\A t \in HandlerIds :
          (/\ tasks[t].kind = "setBreakpointByUrl"
           /\ tasks[t].pc = "sb_validate"
           /\ Rejected(tasks[t].cmd)
           /\ Stepped(t))
          => /\ Len(Added(t)) = 1
             /\ IsResponse(Added(t)[1], ErrorCodeInvalidParams)
             /\ tasks'[t].pc = "done"
             /\ tasks'[t].log = Added(t)
             /\ UNCHANGED <<breakpoints, dbgBreakpoints>>
      ]_vars

\* A Set with a condition was answered InvalidParams while the set held a
\* breakpoint of another command.
C7_RejectedParams_Witness ==
    /\ breakpoints # {}
    /\ \E t \in SetHandlers :
          /\ tasks[t].pc = "done"
          /\ LogOf(t) = <<Response(ErrorCodeInvalidParams, "condition not available")>>

(***************************************************************************)
(* C2: the life of a Target on the transport.                              *)
(***************************************************************************)
TargetIds == {TargetID(r) : r \in Routines}

\* C2 as stated: in every interleaving of snapshots, fan-outs and syncs, a
\* DetachedFromTarget(id) is sent only for an id whose AttachedToTarget was
\* sent before, and no per-target Paused, Resumed or ScriptParsed is sent for an
\* id whose last lifecycle event is DetachedFromTarget (or that was never
\* attached).
C2_TargetLifecycle_AsStated ==
    [][\A t \in TaskIds : \A i \in DOMAIN Added(t) :
          LET e == Added(t)[i]
          IN  /\ (e.op = "event" /\ e.name = "Target.detachedFromTarget")
                    => targetLife[e.arg.targetId] = "attached"
              /\ (e.op = "event" /\ e.target # <<>>)
                    => targetLife'[e.target] = "attached"
      ]_vars

(***************************************************************************)
(* C5: the default agent's Paused before the Targets'.                     *)
(***************************************************************************)
IsPaused(e) == e.op = "event" /\ e.name = "Debugger.paused"

\* C5: in the events of one pause snapshot (a goroutine runs one snapshot, so
\* in the log of one goroutine) no Paused of the default agent comes after a
\* Paused of a Target, and where the active routine had a stack, the default
\* agent's Paused comes first of all Paused events.
C5_DefaultPausedFirst ==
    \A t \in TaskIds :
        /\ \A i, j \in DOMAIN LogOf(t) :
              (/\ IsPaused(LogOf(t)[i]) /\ LogOf(t)[i].target = <<>>
               /\ IsPaused(LogOf(t)[j]) /\ LogOf(t)[j].target # <<>>) => i < j
        /\ (tasks[t].pc = "ps_targets" /\ tasks[t].activeStack # <<>>)
              => \E i \in DOMAIN LogOf(t) : IsPaused(LogOf(t)[i]) /\ LogOf(t)[i].target = <<>>

\* A snapshot sent the default agent's Paused and then a Target's.
C5_DefaultPausedFirst_Witness ==
    \E t \in HandlerIds : \E i, j \in DOMAIN LogOf(t) :
        /\ i < j
        /\ IsPaused(LogOf(t)[i]) /\ LogOf(t)[i].target = <<>>
        /\ IsPaused(LogOf(t)[j]) /\ LogOf(t)[j].target # <<>>
        /\ tasks[t].pc = "done"

(***************************************************************************)
(* C8: debugger errors the proxy is to survive.                            *)
(***************************************************************************)
RecoverableCalls ==
    {"CreateBreakpointAtLine", "ClearBreakpointByName", "SwitchGoroutine", "Next", "Step", "StepOut"}

\* The handler t made the client call fn and the call failed: the handler's
\* answer carries the call's error text.
AnsweredFailure(t, fn) ==
    \E i \in DOMAIN LogOf(t) :
        /\ IsCall(LogOf(t)[i], fn)
        /\ i < Len(LogOf(t))
        /\ LogOf(t)[i + 1] = Response(ErrorCodeInternalError, ErrText(fn))

\* C8 as stated: when CreateBreakpointAtLine, ClearBreakpointByName,
\* SwitchGoroutine, Next, Step or StepOut fails in a handler, the command is
\* answered with InternalError carrying the cause and the proxy is not halted.
C8_RecoverableErrors_AsStated ==
    \A t \in HandlerIds :
        /\ \A fn \in RecoverableCalls : AnsweredFailure(t, fn) => ~halted.on
        /\ (halted.on /\ halted.by = t) => halted.why \notin RecoverableCalls

(***************************************************************************)
(* C10: a step or resume that names its routine.                           *)
(***************************************************************************)
\* C10 as stated: a step or resume command with the decimal DestinationTargetID
\* d has the client switch to d, and to no other routine, before its primitive;
\* and the default agent's Paused of a step command's snapshot carries the stack
\* of d when d lives at the pause.  Also with another such command under way.
C10_StepSwitchesToDestination_AsStated ==
    [][\A t \in HandlerIds :
          (/\ tasks[t].kind \in StepKinds \cup {"resume"}
           /\ InProgress(t)
           /\ Atoi(tasks[t].cmd.destinationTargetID).ok)
          => LET d == Atoi(tasks[t].cmd.destinationTargetID).val
             IN  \A i \in DOMAIN Added(t) :
                   LET e == Added(t)[i]
                   IN  /\ IsCall(e, "SwitchGoroutine") => e.arg = <<d>>
                       /\ IsCall(e, Primitive(tasks[t].kind))
                             => \E j \in DOMAIN LogOf(t) :
                                   LogOf(t)[j] = Call("SwitchGoroutine", <<d>>)
                       /\ (/\ tasks[t].kind \in StepKinds
                           /\ IsPaused(e) /\ e.target = <<>>
                           /\ d \in dbgRoutines)
                             => e.arg.routine = d
      ]_vars

(***************************************************************************)
(* C9: what EvaluateOnCallFrame answers.                                   *)
(***************************************************************************)
EvaluateException ==
    [exceptionId |-> 1, text |-> ErrText("EvalVariable"), lineNumber |-> 0 - 1, columnNumber |-> 0 - 1]

\* C9: when the evaluator was called (the CallFrameId was decimal), the handler
\* answers next and returns, the proxy is not halted by it, and the answer is a
\* success: after a failure of the evaluator it carries the ExceptionDetails
\* (id 1, the error's text, line and column -1) and no Result, after a success
\* the Result and no ExceptionDetails.
C9_EvaluateFailureIsData ==
    \A t \in HandlerIds : \A i \in DOMAIN LogOf(t) :
        IsCall(LogOf(t)[i], "EvalVariable") =>
            /\ Len(LogOf(t)) = i + 1
            /\ tasks[t].pc = "done"
            /\ ~(halted.on /\ halted.by = t)
            /\ IsResponse(LogOf(t)[i + 1], "ok")
            /\ LET answer == LogOf(t)[i + 1].arg
               IN  IF LogOf(t)[i].arg[3] = "err"
                   THEN answer.result = <<>> /\ answer.exceptionDetails = <<EvaluateException>>
                   ELSE Len(answer.result) = 1 /\ answer.exceptionDetails = <<>>

\* The evaluator failed for a frame outside the stack and the command was
\* answered.
C9_EvaluateFailureIsData_Witness ==
    \E t \in HandlerIds :
        /\ Len(LogOf(t)) = 2
        /\ IsCall(LogOf(t)[1], "EvalVariable")
        /\ LogOf(t)[1].arg[3] = "err"
        /\ IsResponse(LogOf(t)[2], "ok")
        /\ ~halted.on

(***************************************************************************)
(* C4: lines to the debugger and back.                                     *)
(***************************************************************************)
PausedLinesBack ==
    \A t \in TaskIds : \A i \in DOMAIN LogOf(t) :
        IsPaused(LogOf(t)[i]) =>
            LET a == LogOf(t)[i].arg
            IN  /\ Len(a.callFrames) = Len(a.backend)
                /\ \A f \in DOMAIN a.backend :
                      a.callFrames[f].location.lineNumber = a.backend[f].line - 1

\* C4: a Set handler asks the client to create the breakpoint at the command's
\* line + 1 and answers with the command's line; every frame of every Paused
\* event, of the default agent and of a Target, reports its debugger line - 1.
C4_LineRoundTrip ==
    [][/\ \A t \in HandlerIds :
            (tasks[t].kind = "setBreakpointByUrl" /\ InProgress(t) /\ Stepped(t))
            => \A i \in DOMAIN Added(t) :
                 LET e == Added(t)[i]
                 IN  /\ IsCall(e, "CreateBreakpointAtLine")
                          => /\ e.arg[1] = tasks[t].cmd.url[1]
                             /\ e.arg[2] = tasks[t].cmd.lineNumber + 1
                     /\ IsResponse(e, "ok")
                          => /\ Len(e.arg.locations) = 1
                             /\ e.arg.locations[1].scriptId = tasks[t].cmd.url[1]
                             /\ e.arg.locations[1].lineNumber = tasks[t].cmd.lineNumber
       /\ PausedLinesBack'
      ]_vars

\* A breakpoint was set at a front-end line n, created at n + 1, and a Paused
\* event of the default agent and one of a Target report a frame standing in
\* that file at debugger line n + 1 as line n.
C4_LineRoundTrip_Witness ==
    \E n \in Lines, t \in HandlerIds, u \in TaskIds :
        /\ tasks[t].kind = "setBreakpointByUrl"
        /\ \E i \in DOMAIN LogOf(t) :
              /\ IsCall(LogOf(t)[i], "CreateBreakpointAtLine")
              /\ LogOf(t)[i].arg[2] = n + 1
        /\ \E i \in DOMAIN LogOf(t) :
              /\ IsResponse(LogOf(t)[i], "ok")
              /\ LogOf(t)[i].arg.locations[1].lineNumber = n
        /\ \E i, j \in DOMAIN LogOf(u) :
              /\ IsPaused(LogOf(u)[i]) /\ LogOf(u)[i].target = <<>>
              /\ IsPaused(LogOf(u)[j]) /\ LogOf(u)[j].target # <<>>
              /\ \E f \in DOMAIN LogOf(u)[i].arg.backend :
                    /\ LogOf(u)[i].arg.backend[f].file = SourceFile
                    /\ LogOf(u)[i].arg.backend[f].line = n + 1
                    /\ LogOf(u)[i].arg.callFrames[f].location.lineNumber = n

(***************************************************************************)
(* C6: the commands the router rejects.                                    *)
(***************************************************************************)
UnsupportedCommands ==
    {"disable", "setBreakpointsActive", "setSkipAllPauses", "setBreakpoint",
     "getPossibleBreakpoints", "continueToLocation", "pause", "searchInContent",
     "setScriptSource", "restartFrame", "setPauseOnExceptions", "setVariableValue",
     "setAsyncCallStackDepth", "setBlackboxPatterns", "setBlackboxedRanges"}

\* C6: whatever the payload and the proxy's state, the router answers each of
\* the fifteen unsupported commands with MethodNotFound, and answering it starts
\* no goroutine, makes no client call and leaves ActiveTargets, ActiveRoutineId,
\* Breakpoints and everything else of the proxy and the debuggee as it was.
C6_UnsupportedCommands ==
    [][(routerOut' # routerOut /\ routerOut'.method \in UnsupportedCommands)
          => /\ routerOut'.response = Response(ErrorCodeMethodNotFound, "")
             /\ UNCHANGED <<start, tasks, ntasks, activeTargets, activeGoroutineID, fileList,
                            breakpoints, breakpointsMux, activeTargetsMux, dbgRoutines,
                            dbgBreakpoints, targetLife, halted>>
      ]_vars

\* Pause with a payload was rejected while Targets were attached and the first
\* snapshot was under way.
C6_UnsupportedCommands_Witness ==
    /\ routerOut.method = "pause"
    /\ routerOut.payload # <<>>
    /\ routerOut.response = Response(ErrorCodeMethodNotFound, "")
    /\ activeTargets # {}
    /\ InProgress(0)

(***************************************************************************)
(* C11: the ActiveTargets lock and the debugger client's calls.            *)
(***************************************************************************)
HoldsActiveTargetsMux(t) == t \in activeTargetsMux.w \cup activeTargetsMux.r

\* The goroutines that make a debugger client call in the step taken while
\* they hold the ActiveTargets lock before and after it.
CallsUnderActiveTargetsMux ==
    {t \in TaskIds :
        /\ HoldsActiveTargetsMux(t)
        /\ t \in activeTargetsMux'.w \cup activeTargetsMux'.r
        /\ \E i \in DOMAIN Added(t) : Added(t)[i].op = "call"}

\* C11 as stated: no goroutine holds the ActiveTargets lock, in read or in
\* write mode, while it is inside a debugger client call: the routine sync and
\* the pause snapshot release it before ListGoroutines and Stacktrace.
C11_NoCallUnderActiveTargetsMux_AsStated == [][CallsUnderActiveTargetsMux = {}]_vars

\* A snapshot that has called Stacktrace and still holds the read lock.
C11_NoCallUnderActiveTargetsMux_Witness ==
    \E t \in TaskIds :
        /\ t \in activeTargetsMux.r
        /\ \E i \in DOMAIN LogOf(t) : IsCall(LogOf(t)[i], "Stacktrace")

(***************************************************************************)
(* C12: the routine sync keeps ActiveTargets exact.                        *)
(***************************************************************************)
\* The goroutines that are inside syncGoroutines, past its ListGoroutines.
Syncing == {t \in TaskIds : tasks[t].pc \in {"sync_active", "sync_pick"}}

\* The routine ids that ListGoroutines returns to the step taken.
ListedIds == {ListGoroutinesResult[i].ID : i \in 1..Len(ListGoroutinesResult)}

\* How many entries of the log entries es are the event name of Target id.
TargetEvents(es, name, id) ==
    Cardinality({i \in DOMAIN es : es[i].op = "event" /\ es[i].name = name /\ es[i].arg.targetId = id})

\* The step taken is the sync of t past a ListGoroutines that succeeded.
SyncStep(t) == tasks[t].pc = "sync_list" /\ tasks'[t].pc = "sync_active"

\* C12: the sync of a goroutine leaves ActiveTargets with exactly the routine
\* ids its ListGoroutines returned, and the map stays so until that sync
\* returns; in any run of syncs, also of concurrent handlers, the sync sends
\* exactly one AttachedToTarget for each routine it sees that has no Target
\* (never attached, or detached before) and none for the others, exactly one
\* DetachedFromTarget for each Target whose routine it no longer sees and none
\* for the others, and the Targets in the map are those attached and not since
\* detached.
C12_SyncExact ==
    [][/\ \A t \in TaskIds :
            /\ SyncStep(t) =>
                  /\ activeTargets' = ListedIds
                  /\ \A r \in Routines :
                        /\ TargetEvents(Added(t), "Target.attachedToTarget", TargetID(r))
                              = (IF r \in ListedIds /\ targetLife[TargetID(r)] # "attached" THEN 1 ELSE 0)
                        /\ TargetEvents(Added(t), "Target.detachedFromTarget", TargetID(r))
                              = (IF r \notin ListedIds /\ targetLife[TargetID(r)] = "attached" THEN 1 ELSE 0)
            /\ t \in Syncing => activeTargets' = activeTargets
       /\ activeTargets' = {r \in Routines : targetLife'[TargetID(r)] = "attached"}
      ]_vars

\* A sync has detached a Target and another sync runs past its ListGoroutines.
C12_SyncExact_Witness ==
    /\ \E r \in Routines : targetLife[TargetID(r)] = "detached"
    /\ \E t \in HandlerIds : t \in Syncing /\ activeTargets # {} /\ activeTargets # Routines

(***************************************************************************)
(* C13: the router stays responsive.                                       *)
(***************************************************************************)
\* The handlers blocked in their primitive: Next, Step, StepOut or Continue.
Blocked == {t \in HandlerIds : tasks[t].pc = "st_prim"}

\* C13: while a handler is blocked in its debugger call, a command the router
\* has read is handled (a rejected command answered with MethodNotFound, a
\* dispatched command's handler started) although no blocked handler ever
\* returns, as long as the process runs.
C13_RouterResponsive == (Blocked # {} /\ Pending) ~> (~Pending \/ ~Running)

\* The first handler is blocked in Continue, the handler of a later command
\* has been started, and the last command was answered with MethodNotFound.
C13_RouterResponsive_Witness ==
    /\ tasks[1].pc = "st_prim" /\ tasks[1].kind = "resume"
    /\ ntasks = 2 /\ tasks[2].pc = "st_dest"
    /\ routerOut.method \in RejectedMethods
    /\ routerOut.response = Response(ErrorCodeMethodNotFound, "")

(***************************************************************************)
(* C14: the order of Start.                                                *)
(***************************************************************************)
\* The sources of srcs that Start announces, in their order.
Announced(srcs) == SelectSeq(srcs, LAMBDA source : source # "<autogenerated>")

\* The sources Start has gone through.
SourcesDone == SubSeq(start.sources, 1, start.i - 1)

\* Nothing has been observed of the proxy: no call, no event, no answer, no
\* handler, no snapshot.
NothingYet ==
    /\ start.log = <<>>
    /\ routerOut.method = "none"
    /\ ntasks = 0
    /\ \A t \in TaskIds : tasks[t].pc = "idle" /\ tasks[t].log = <<>>
    /\ fileList = <<>>

\* What Start has done, in its order: the acknowledgement of Enable, then
\* BlockUntilReady, GetState, ListSources, and one default-agent ScriptParsed
\* for every source gone through that is not "<autogenerated>".
StartOrder ==
    LET log == start.log
    IN  /\ Len(log) >= 1 => log[1] = Response("ok", <<>>)
        /\ Len(log) >= 2 => log[2] = Call("BlockUntilReady", <<>>)
        /\ Len(log) >= 3 => IsCall(log[3], "GetState")
        /\ Len(log) >= 4 => log[4] = Call("ListSources", <<>>)
        /\ Len(log) >= 4 =>
              SubSeq(log, 5, Len(log)) =
                  [i \in 1..Len(Announced(SourcesDone)) |->
                      Event("Debugger.scriptParsed", <<>>,
                            [scriptId |-> Announced(SourcesDone)[i], url |-> Announced(SourcesDone)[i],
                             executionContextId |-> 1])]

\* C14: before Start has acknowledged Enable nothing happens: no debugger
\* call, no command handled or dispatched by the router, no event.  Then
\* Start waits for the debugger, queries the state and records its selected
\* routine as ActiveRoutineId, starts the first pause snapshot before it lists
\* the sources, and sends exactly one default-agent ScriptParsed
\* (ExecutionContextId 1, ScriptId equal to Url) per listed source other than
\* "<autogenerated>", in the listed order; FileList holds those sources and
\* never "<autogenerated>".
C14_StartOrder ==
    [][/\ start'.pc = "enable" => NothingYet'
       /\ StartOrder'
       /\ (start.pc = "state" /\ start'.pc = "sources") =>
             LET sel == start'.log[3].arg[1]
             IN  /\ activeGoroutineID' = (IF sel # 0 THEN sel ELSE activeGoroutineID)
                 /\ tasks[0].pc = "idle" /\ tasks'[0].pc = "ps_state"
       /\ tasks'[0].pc # "idle" => Len(start'.log) >= 3 /\ start'.pc # "state"
       /\ Len(start'.log) >= 4 => tasks'[0].kind = "sendPauseState"
       /\ fileList' = Announced(SubSeq(start'.sources, 1, start'.i - 1))
       /\ \A i \in DOMAIN fileList' : fileList'[i] # "<autogenerated>"
       /\ start'.pc = "done" => start'.i = Len(start'.sources) + 1
      ]_vars

\* Start has finished a list of three sources with "<autogenerated>" between
\* two others, and a script source was asked for meanwhile.
C14_StartOrder_Witness ==
    /\ start.pc = "done" /\ Len(start.sources) = 3 /\ Len(fileList) = 2
    /\ ntasks = 1 /\ tasks[1].kind = "getScriptSource"

(***************************************************************************)
(* C15: the order of a step command.                                       *)
(***************************************************************************)
IsEvent(e, name) == e.op = "event" /\ e.name = name

\* The entries of a log that the pause snapshot makes.
IsSnapshotEntry(e) ==
    \/ e.op = "call" /\ e.name \in {"GetState", "ListGoroutines", "Stacktrace"}
    \/ e.op = "event" /\ e.name \in {"Debugger.paused", "Target.attachedToTarget",
                                     "Target.detachedFromTarget", "Debugger.scriptParsed"}

DefaultResumed == Event("Debugger.resumed", <<>>, <<>>)

\* The order of the log L of a step handler: SwitchGoroutine first, then the
\* fan-out ending in the default agent's Resumed, then the primitive, the
\* acknowledgement right after it, and the snapshot after the acknowledgement.
StepOrder(kind, L) ==
    \A i \in DOMAIN L :
        /\ IsCall(L[i], "SwitchGoroutine") => i = 1
        /\ IsEvent(L[i], "Debugger.resumed") =>
              /\ i > 1 /\ IsCall(L[1], "SwitchGoroutine")
              /\ \A j \in 1..i : ~IsCall(L[j], Primitive(kind)) /\ ~IsResponse(L[j], "ok")
        /\ IsCall(L[i], Primitive(kind)) =>
              /\ i > 2 /\ L[i - 1] = DefaultResumed
              /\ \A j \in 1..i : ~IsResponse(L[j], "ok") /\ ~IsSnapshotEntry(L[j])
        /\ IsResponse(L[i], "ok") => i > 1 /\ IsCall(L[i - 1], Primitive(kind))
        /\ IsSnapshotEntry(L[i]) => \E j \in 1..(i - 1) : IsResponse(L[j], "ok")

\* C15: in the log of every StepOver, StepInto and StepOut handler the
\* SwitchGoroutine call, made for ActiveRoutineId, comes first, the resume
\* fan-out follows, then the step primitive (Next, Step, StepOut), then the
\* acknowledgement, and only then what the pause snapshot does; the command
\* is acknowledged right after its primitive has returned and never before;
\* a handler that returns has done all of it.
C15_StepOrder ==
    [][\A t \in HandlerIds :
          tasks'[t].kind \in StepKinds =>
             /\ StepOrder(tasks'[t].kind, tasks'[t].log)
             /\ \A i \in DOMAIN Added(t) :
                   IsCall(Added(t)[i], "SwitchGoroutine") => Added(t)[i].arg = <<activeGoroutineID>>
             /\ tasks'[t].pc = "done" =>
                   /\ \E i \in DOMAIN tasks'[t].log : IsResponse(tasks'[t].log[i], "ok")
                   /\ \E i \in DOMAIN tasks'[t].log : IsCall(tasks'[t].log[i], "GetState")
      ]_vars

\* A StepInto handler has returned after a snapshot that sent a Paused event.
C15_StepOrder_Witness ==
    \E t \in HandlerIds :
        /\ tasks[t].kind = "stepInto" /\ tasks[t].pc = "done"
        /\ \E i \in DOMAIN LogOf(t) : IsEvent(LogOf(t)[i], "Debugger.paused")
        /\ \E i \in DOMAIN LogOf(t) : IsEvent(LogOf(t)[i], "Debugger.resumed") /\ LogOf(t)[i] # DefaultResumed

(***************************************************************************)
(* C16: the order of a Resume command.                                     *)
(***************************************************************************)
\* The Continue calls of the log L that yielded a state, before entry i.
YieldedBefore(L, i) == {j \in 1..(i - 1) : L[j] = Call("Continue", <<"state">>)}

\* The order of the log L of a Resume handler: the acknowledgement right
\* after SwitchGoroutine, then the fan-out, then Continue, then the snapshot.
ResumeOrder(L) ==
    \A i \in DOMAIN L :
        /\ IsResponse(L[i], "ok") => i = 2 /\ IsCall(L[1], "SwitchGoroutine")
        /\ IsEvent(L[i], "Debugger.resumed") =>
              /\ \E j \in 1..(i - 1) : IsResponse(L[j], "ok")
              /\ \A j \in 1..i : ~IsCall(L[j], "Continue")
        /\ IsCall(L[i], "Continue") =>
              /\ i > 3 /\ L[i - 1] = DefaultResumed
              /\ \A j \in 1..i : ~IsSnapshotEntry(L[j])
        /\ IsSnapshotEntry(L[i]) => YieldedBefore(L, i) # {}

\* The step taken is the receive of a state from Continue by t.
Yielded(t) == \E i \in DOMAIN Added(t) : Added(t)[i] = Call("Continue", <<"state">>)

\* C16 as stated: a Resume command is acknowledged before the resume fan-out
\* and before Continue is invoked; when Continue yields a state,
\* ActiveRoutineId becomes that state's selected routine if it has one and is
\* left alone otherwise; the pause snapshot runs only after that, and its
\* default-agent Paused is for the routine the yielded state selected.
C16_ResumeOrder_AsStated ==
    [][\A t \in HandlerIds :
          tasks'[t].kind = "resume" =>
             /\ ResumeOrder(tasks'[t].log)
             /\ Yielded(t) =>
                   /\ tasks'[t].selected # 0 => activeGoroutineID' = tasks'[t].selected
                   /\ tasks'[t].selected = 0 => activeGoroutineID' = activeGoroutineID
                   /\ tasks'[t].pc = "ps_state"
             /\ \A i \in DOMAIN Added(t) :
                   (IsEvent(Added(t)[i], "Debugger.paused") /\ Added(t)[i].target = <<>>
                      /\ tasks[t].selected # 0) =>
                       Added(t)[i].arg.routine = tasks[t].selected
      ]_vars

\* The snapshot of a Resume handler whose Continue yielded a state with a
\* selected routine has sent the default agent's Paused.
C16_ResumeOrder_Witness ==
    \E t \in HandlerIds :
        /\ tasks[t].kind = "resume" /\ tasks[t].pc = "ps_targets" /\ tasks[t].selected # 0
        /\ \E i \in DOMAIN LogOf(t) : IsEvent(LogOf(t)[i], "Debugger.paused") /\ LogOf(t)[i].target = <<>>

(***************************************************************************)
(* C17: the resume fan-out.                                                *)
(***************************************************************************)
\* The handlers inside the range of sendResumeState.
FanningOut == {t \in HandlerIds : tasks[t].pc = "rs_fire"}

\* How many entries of es are a Resumed event of Target id.
ResumedOf(es, id) ==
    Cardinality({i \in DOMAIN es : IsEvent(es[i], "Debugger.resumed") /\ es[i].target = id})

\* C17: a resume fan-out sends exactly one per-target Resumed for every
\* Target in ActiveTargets at that moment, the active routine's included, and
\* for no other, then exactly one Resumed on the default agent, which comes
\* last; and ActiveTargets does not change while a fan-out goes over it.
C17_ResumeFanOut ==
    [][\A t \in FanningOut :
          /\ activeTargets' = activeTargets
          /\ Stepped(t) =>
                /\ Len(Added(t)) = Cardinality(activeTargets) + 1
                /\ \A r \in Routines :
                      ResumedOf(Added(t), TargetID(r)) = (IF r \in activeTargets THEN 1 ELSE 0)
                /\ ResumedOf(Added(t), <<>>) = 1
                /\ Added(t)[Len(Added(t))] = DefaultResumed
      ]_vars

\* A handler has done its fan-out, with a Resumed for the Target of the
\* active routine and one for another Target, while another handler is in
\* its own.
C17_ResumeFanOut_Witness ==
    /\ FanningOut # {}
    /\ \E t \in HandlerIds, r \in Routines :
          /\ tasks[t].pc = "st_prim" /\ r # activeGoroutineID
          /\ ResumedOf(LogOf(t), TargetID(activeGoroutineID)) = 1
          /\ ResumedOf(LogOf(t), TargetID(r)) = 1
          /\ ResumedOf(LogOf(t), <<>>) = 1

(***************************************************************************)
(* C18: the active routine after a routine sync.                           *)
(***************************************************************************)
\* The step taken ends the routine sync of t.
SyncEnds(t) == t \in Syncing /\ tasks'[t].pc \notin {"sync_active", "sync_pick"}

\* C18: when a routine sync ends and ActiveTargets is not empty,
\* ActiveRoutineId is a key of ActiveTargets; a sync that finds
\* ActiveRoutineId among the keys leaves it unchanged, and a sync that does
\* not replaces it by a key of ActiveTargets.
C18_ActiveAfterSync ==
    [][\A t \in TaskIds :
          /\ SyncEnds(t) =>
                /\ activeTargets # {} => activeGoroutineID' \in activeTargets
                /\ activeTargets' = activeTargets
                /\ tasks[t].pc = "sync_active" =>
                      activeGoroutineID \in activeTargets /\ activeGoroutineID' = activeGoroutineID
                /\ (tasks[t].pc = "sync_pick" /\ activeTargets = {}) =>
                      activeGoroutineID' = activeGoroutineID
          /\ (tasks[t].pc = "sync_active" /\ tasks'[t].pc = "sync_pick") =>
                activeGoroutineID \notin activeTargets /\ activeGoroutineID' = activeGoroutineID
      ]_vars

\* A sync found the active routine gone and has replaced it: the snapshot
\* goes on with an active routine that its handler did not switch to.
C18_ActiveAfterSync_Witness ==
    \E t \in HandlerIds :
        /\ tasks[t].pc = "ps_rlock" /\ activeGoroutineID \in activeTargets
        /\ \E i \in DOMAIN LogOf(t) :
              /\ IsCall(LogOf(t)[i], "SwitchGoroutine")
              /\ LogOf(t)[i].arg[1] \notin activeTargets
        /\ tasks[t].selected = 0

(***************************************************************************)
(* C19: the scripts announced to an attached Target.                       *)
(***************************************************************************)
\* The entries that follow entry i of the log L, as many as n.
Following(L, i, n) == SubSeq(L, i + 1, IF i + n <= Len(L) THEN i + n ELSE Len(L))

\* The per-target ScriptParsed events of Target id for the files.
TargetScripts(id, files) ==
    [k \in 1..Len(files) |-> Event("Debugger.scriptParsed", id, ScriptParsedEvent(files[k]))]

\* C19 as stated: once Start has listed and announced the sources, every
\* AttachedToTarget a goroutine has sent, the first snapshot's included, is
\* followed in that goroutine's log by one per-target ScriptParsed
\* (ExecutionContextId 1) for every listed source other than
\* "<autogenerated>".
C19_AttachAnnouncesScripts_AsStated ==
    start.pc = "done" =>
        \A t \in TaskIds : \A i \in DOMAIN LogOf(t) :
            IsEvent(LogOf(t)[i], "Target.attachedToTarget") =>
                Following(LogOf(t), i, Len(Announced(start.sources)))
                    = TargetScripts(LogOf(t)[i].arg.targetId, Announced(start.sources))

\* The first snapshot has attached a Target and Start has announced its
\* sources.
C19_AttachAnnouncesScripts_Witness ==
    /\ start.pc = "done" /\ fileList # <<>>
    /\ \E i \in DOMAIN LogOf(0) : IsEvent(LogOf(0)[i], "Target.attachedToTarget")

(***************************************************************************)
(* C20: the debuggee exits during a Resume.                                *)
(***************************************************************************)
\* The step taken is t finding the channel of Continue closed.
ContinueClosed(t) == \E i \in DOMAIN Added(t) : Added(t)[i] = Call("Continue", <<"closed">>)

\* C20: when the channel returned by Continue is closed without a state the
\* proxy halts, and nothing happens afterwards; the Resume command has been
\* acknowledged and its fan-out sent before, ActiveRoutineId is not updated,
\* and no pause snapshot runs: the handler's log ends with the Continue call
\* and has no Paused, AttachedToTarget or DetachedFromTarget event.
C20_ExitIsFatal ==
    [][/\ \A t \in HandlerIds :
            ContinueClosed(t) =>
               LET L == tasks'[t].log
               IN  /\ halted' = [on |-> TRUE, by |-> t, why |-> "It appears program has exited"]
                   /\ activeGoroutineID' = activeGoroutineID
                   /\ activeTargets' = activeTargets
                   /\ L[Len(L)] = Call("Continue", <<"closed">>)
                   /\ Len(L) > 3 /\ L[2] = Response("ok", <<>>) /\ L[Len(L) - 1] = DefaultResumed
                   /\ \A r \in activeTargets : ResumedOf(L, TargetID(r)) = 1
                   /\ \A i \in DOMAIN L : ~IsSnapshotEntry(L[i])
       /\ halted.on => FALSE
      ]_vars

\* The proxy has halted on the closed channel after a fan-out to two Targets.
C20_ExitIsFatal_Witness ==
    /\ halted.on /\ halted.why = "It appears program has exited"
    /\ Cardinality(activeTargets) = 2
    /\ \A r \in activeTargets : ResumedOf(LogOf(halted.by), TargetID(r)) = 1

(***************************************************************************)
(* C21: the pause snapshot partitions the routines it goes over.           *)
(***************************************************************************)
\* The routines the snapshot in the log L has gone over: those it asked the
\* stack of.
Iterated(L) == {L[i].arg[1] : i \in {j \in DOMAIN L : IsCall(L[j], "Stacktrace")}}

\* The Paused events of the log L for routine r sent on the agent target
\* (the default agent for <<>>).
PausedOn(L, target, r) ==
    {i \in DOMAIN L : IsEvent(L[i], "Debugger.paused") /\ L[i].target = target /\ L[i].arg.routine = r}

DefaultPausedIn(L) == {i \in DOMAIN L : IsEvent(L[i], "Debugger.paused") /\ L[i].target = <<>>}

\* The snapshot in the log L has sent, for every routine it went over, exactly
\* one Paused, on the default agent or on the routine's own Target, and
\* exactly one Paused on the default agent if it went over any routine.
Partitioned(L) ==
    /\ \A r \in Iterated(L) :
          Cardinality(PausedOn(L, <<>>, r)) + Cardinality(PausedOn(L, TargetID(r), r)) = 1
    /\ Iterated(L) # {} => Cardinality(DefaultPausedIn(L)) = 1

\* C21 as stated: every pause snapshot that has finished has sent exactly
\* one Paused for each routine it went over, the active routine's on the
\* default agent and every other routine's on its own Target, no routine
\* getting both or none, and exactly one default-agent Paused when it went
\* over a routine, also when a step or resume handler writes ActiveRoutineId
\* while the snapshot goes over the routines.
C21_SnapshotPartition_AsStated ==
    \A t \in TaskIds :
        (tasks[t].pc = "done" /\ \E i \in DOMAIN LogOf(t) : IsCall(LogOf(t)[i], "GetState"))
            => Partitioned(LogOf(t))

\* A snapshot has finished after going over two routines while another
\* handler had not yet written its destination to ActiveRoutineId.
C21_SnapshotPartition_Witness ==
    \E t, u \in HandlerIds :
        /\ t # u /\ tasks[t].pc = "done" /\ Cardinality(Iterated(LogOf(t))) = 2
        /\ tasks[u].pc \in {"st_switch", "rs_rlock", "rs_fire", "st_prim"}

(***************************************************************************)
(* C22: Paused and Resumed on the default agent.                           *)
(***************************************************************************)
RECURSIVE SumOver(_, _)
SumOver(S, f) ==
    IF S = {} THEN 0
    ELSE LET x == CHOOSE y \in S : TRUE IN f[x] + SumOver(S \ {x}, f)

\* The default agent's Paused and Resumed events sent so far, by all
\* goroutines.
DefaultPausedSent == SumOver(TaskIds, [t \in TaskIds |-> Cardinality(DefaultPausedIn(LogOf(t)))])

DefaultResumedSent ==
    SumOver(TaskIds, [t \in TaskIds |-> Cardinality({i \in DOMAIN LogOf(t) : LogOf(t)[i] = DefaultResumed})])

\* The default agent's events so far alternate and began with a Paused: a
\* step sends at most one of them, so they alternate from the first Paused on
\* exactly when, after every step, the Paused sent are as many as the Resumed
\* or one more.
Alternating == DefaultPausedSent - DefaultResumedSent \in {0, 1}

\* The goroutines that are running a handler or a snapshot.
Busy == {t \in TaskIds : tasks[t].pc \notin {"idle", "done", "panic"}}

\* At most one handler or snapshot is under way, and no handler was started
\* before the first snapshot had finished.
InTurn == Cardinality(Busy) <= 1 /\ (ntasks = 0 \/ tasks[0].pc = "done")

\* C22 as stated: with step and resume commands sent one at a time, each once
\* the previous one was acknowledged, the default agent's Paused and Resumed
\* events alternate, beginning with the Paused of the first snapshot: no
\* Resumed before the first Paused, no two Resumed and no two Paused in a row.
C22_Alternation_AsStated == Alternating

\* C22, amended: the default agent's Paused and Resumed events alternate,
\* beginning with the Paused of the first snapshot, as long as the front-end
\* sends each step or resume command only once the pause snapshot before it
\* (the first snapshot, or the previous command's) has finished, so that no
\* two of them are under way at once.
C22_Alternation ==
    [][(Alternating /\ InTurn /\ InTurn') => Alternating']_vars

\* The second of two commands sent one after the other's snapshot has sent
\* its Resumed: Paused, Resumed, Paused, Resumed so far.
C22_Alternation_Witness ==
    /\ ntasks = 2 /\ tasks[0].pc = "done" /\ tasks[1].pc = "done" /\ tasks[2].pc = "st_prim"
    /\ DefaultPausedSent = 2 /\ DefaultResumedSent = 2

(***************************************************************************)
(* C23: the SystemInfo agent's getInfo handler.                            *)
(***************************************************************************)
\* The handler most recently stored: that of the SetGetInfoHandler call that
\* returned last, the nil func before any has.
MostRecentlyStored == IF handlersSet = <<>> THEN Nil ELSE handlersSet[Len(handlersSet)]

\* The handlers some SetGetInfoHandler call has written so far.
StoredAtSomePoint ==
    {agentSetters[s].handler : s \in {q \in HandlerIds : agentSetters[q].pc \in {"unlock", "done"}}}

Invocations(L) == {i \in DOMAIN L : IsCall(L[i], "fn")}

MethodNotFounds(L) == {i \in DOMAIN L : L[i] = Response(ErrorCodeMethodNotFound, "")}

Returned(a) == agentCalls[a].pc \in {"done", "panic"}

\* C23: a ProcessCommand for "getInfo" loads the handler most recently stored
\* by SetGetInfoHandler, calls it exactly once and sends no MethodNotFound, or,
\* when none is stored, calls nothing and answers MethodNotFound once; every
\* other function name is answered MethodNotFound once without a handler being
\* loaded or called; and whatever SetGetInfoHandler calls run at the same
\* time, the handler called is one that a SetGetInfoHandler call stored.
C23_GetInfo ==
    \A a \in HandlerIds :
        LET call == agentCalls[a]
        IN  /\ call.pc \in {"runlock", "fn"} \/ (Returned(a) /\ call.funcName = "getInfo")
                  => call.fn \in {Nil} \cup StoredAtSomePoint
            /\ call.pc = "runlock" => call.fn = MostRecentlyStored
            /\ (Returned(a) /\ call.funcName = "getInfo" /\ call.fn # Nil)
                  => /\ Cardinality(Invocations(call.log)) = 1
                     /\ \A i \in Invocations(call.log) : call.log[i].arg = <<call.fn>>
                     /\ MethodNotFounds(call.log) = {}
            /\ (Returned(a) /\ call.funcName = "getInfo" /\ call.fn = Nil)
                  => /\ Invocations(call.log) = {}
                     /\ Cardinality(MethodNotFounds(call.log)) = 1
            /\ (Returned(a) /\ call.funcName # "getInfo")
                  => call.log = <<Response(ErrorCodeMethodNotFound, "")>> /\ call.fn = Nil

\* A getInfo call has called the handler stored first while a second
\* SetGetInfoHandler call was about to write another one, and a call for
\* another function name was answered.
C23_GetInfo_Witness ==
    /\ handlersSet = <<1>>
    /\ agentSetters[2] = [pc |-> "write", handler |-> 2]
    /\ agentCalls[1].pc = "done" /\ agentCalls[1].funcName = "getInfo" /\ agentCalls[1].fn = 1
    /\ Cardinality(Invocations(agentCalls[1].log)) = 1
    /\ agentCalls[2].pc = "done" /\ agentCalls[2].funcName = "getProcessInfo"

====
